---- MODULE Spec2Model ----
(***************************************************************************)
(* Sharded lock-free counters of the contatori crate.                      *)
(*                                                                         *)
(* Worker threads update the cell of their own shard with one atomic       *)
(* read-modify-write; an observer walks the shard array cell by cell.      *)
(* Every action below is one atomic memory access of the code (plus the    *)
(* thread-local computation that follows it), so that the interleavings    *)
(* TLC explores are the interleavings of the program's atomic steps.       *)
(* Every atomic access reads the latest value of its cell; sums wrap       *)
(* modulo 2^w as the atomics do (and as .sum() does in a release build).   *)
(***************************************************************************)
EXTENDS Integers, Naturals, Sequences, FiniteSets, TLC

\* ------------------------------------------------------------------ bounds
\* Number of shards of a counter (64 in the crate, scaled down).
NUM_COMPONENTS == 2
\* Width of usize in bits (64 on the crate's targets, scaled down).
WordBits == 5
\* Calls each worker thread makes (the K of the multi-thread tests).
MaxCalls == 2
\* Largest amount a worker passes to add().
MaxVal == 2
\* Calls all workers together make while the observer is reading.
MaxAdds == 2
\* Reads the observer makes.
MaxReads == 2
\* The latest instant the clock shows.
MaxTime == 2
\* Labeled sub-counters a labeled group declares at most.
MaxFields == 2
\* Counters in the slice passed to OtelObserver::register at most.
MaxCounters == 3

Modulus == 2 ^ WordBits
USIZE_MAX == Modulus - 1
USIZE_MIN == 0
\* One thread more than there are shards: the last one shares shard 0.
Threads == 1 .. (NUM_COMPONENTS + 1)
Shards == 0 .. (NUM_COMPONENTS - 1)
Amounts == 1 .. MaxVal
\* isize: the smallest negative number is -Half, the largest positive Half - 1.
Half == 2 ^ (WordBits - 1)
\* Amounts a worker passes to Signed::add / Signed::sub (isize).
SignedAmounts == (-MaxVal .. MaxVal) \ {0}
NoSlot == -1
\* Values a worker passes to observe().
ObsVals == 0 .. MaxVal
SumKinds == {"Unsigned", "Monotone"}
SignedKinds == {"Signed"}
AverageKinds == {"Average"}
RateKinds == {"Rate"}
\* The threads that call rate().
Samplers == {"s1", "s2"}
OneSampler == {"s1"}
\* The instants the clock shows.
Instants == 0 .. MaxTime
\* Counts a worker passes to observe_many() / add_count().
Counts == 1 .. MaxVal
ExtKinds == {"Minimum", "Maximum"}
\* A labeled group: its metric name, the label key its sub-counters share,
\* and the label values of the labeled sub-counters in declaration order.
GroupName == "test_metric"
GroupLabelKey == "label"
GroupLabelValues == <<"A", "B", "C", "D">>
\* Keys and values of the labels attached to a Labeled.
LabelKeys == {"method", "path", "status"}
LabelValues == {"GET", "POST"}
\* The counter types the tests wrap in a NonResettable.
NonResettableKinds == {"Unsigned", "Signed"}
\* The counter types that can be wrapped in a Resettable.
ResettableKinds == {"Unsigned", "Signed", "Maximum", "Monotone"}

VARIABLES
    NEXT_SLOT_ID,       \* the process-wide slot counter
    THREAD_SLOT_INDEX,  \* thread-local slot of each thread, NoSlot before first use
    kind,               \* the counter type under test
    components,         \* the shard array of the counter
    calls,              \* join harness: number of calls each worker has made
    nCalls,             \* other harnesses: number of calls the workers have made
    window,             \* harnesses: what fell between which calls of the reader
    pc,                 \* where each worker is: "idle", or "cas" inside observe()
    current,            \* observe(): the local `current` of each worker
    arg,                \* observe(): the value the worker is observing
    rd,                 \* the observer's read in progress: pc, op, i, acc, clean
    last,               \* the observer's latest completed read: op, val, clean, prevVal
    reads,              \* number of reads the observer has completed
    nResets,            \* number of those that were value_and_reset()
    added,              \* history: sum of all amounts passed to add()
    subbed,             \* history: sum of all amounts passed to sub()
    collected,          \* history: sum of the values returned by reset reads
    sinceReset,         \* history: aggregate of what was written since the last reset
    everRaced,          \* history: some write call overlapped a read
    best,               \* history: extremum of all values passed to observe()
    stale,              \* history: the worker's cell changed since it loaded it
    retried,            \* history: some compare_exchange_weak found another value
    last_value,         \* Rate: the total stored by the latest rate() call
    last_instant,       \* Rate: the instant stored by the latest rate() call
    clock,              \* the monotonic clock that Instant::now() reads
    sampler,            \* Rate: where each sampling thread is in rate(), its locals
    sampled,            \* history: what each sampling thread's latest rate() did
    labels,             \* Labeled: the label list, a Vec of (key, value) pairs
    called,             \* history: the latest call on the Labeled and the list before it
    group,              \* labeled group: the declared sub-counters, in order
    subs,               \* labeled group: the shard array of each sub-counter
    snapshot,           \* the counters of the latest MetricsSnapshot collected
    touched,            \* history: the (sub-counter, cell) pairs each thread has written
    otel                \* OtelObserver: the meter's instruments, the register() in progress

vars == <<NEXT_SLOT_ID, THREAD_SLOT_INDEX, kind, components, calls, nCalls, window, pc, current,
          arg, rd, last, reads, nResets, added, subbed, collected, sinceReset,
          everRaced, best, stale, retried, last_value, last_instant, clock, sampler,
          sampled, labels, called, group, subs, snapshot, touched, otel>>

slotVars == <<NEXT_SLOT_ID, THREAD_SLOT_INDEX>>
casVars == <<pc, current, arg, best, stale, retried>>
loopVars == <<calls, nCalls, window>>
sumHist == <<added, subbed, collected, sinceReset>>
readVars == <<rd, last, reads, nResets>>
rateVars == <<last_value, last_instant, clock, sampler, sampled>>
groupVars == <<group, subs, snapshot, touched, otel>>
wrapVars == <<labels, called, groupVars>>

\* ------------------------------------------------------- pure operations
Min2(a, b) == IF a < b THEN a ELSE b
Max2(a, b) == IF a > b THEN a ELSE b

\* usize -> u64 (the crate's targets have 64-bit usize: zero extension).
AsU64(x) == x % Modulus

\* isize -> i64: the same bits read as a signed number (sign extension).
\* (variant: the bits read as an unsigned number)
AsI64_unsigned(x) == x % Modulus
AsI64(x) == IF x % Modulus >= Half THEN (x % Modulus) - Modulus ELSE x % Modulus

\* Two's complement wrap of isize arithmetic.
wrapping_isize(x) == ((x + Half) % Modulus) - Half

\* AtomicIsize::fetch_add / fetch_sub: the new content of the cell (wrapping).
Signed_fetch_add(cell, v) == wrapping_isize(cell + v)
Signed_fetch_sub(cell, v) == wrapping_isize(cell - v)

\* Signed: one iteration of the fold in total_value (load, add) and of the
\* loop in total_value_and_reset (swap(0), add).
Signed_total_value(acc, cell) == [acc |-> wrapping_isize(acc + cell), cell |-> cell]
Signed_total_value_and_reset(acc, cell) ==
    [acc |-> wrapping_isize(acc + cell), cell |-> 0]

\* AtomicUsize::fetch_add / fetch_sub: the new content of the cell (wrapping).
\* (variant: a store where the fetch_add should be)
fetch_add_store(cell, v) == v
fetch_add(cell, v) == (cell + v) % Modulus
fetch_sub(cell, v) == (cell - v) % Modulus

\* get_next_slot_id: the slot handed out for the current NEXT_SLOT_ID.
\* (variant: the counter's value without the modulo)
get_next_slot_id_nomod == NEXT_SLOT_ID
get_next_slot_id == NEXT_SLOT_ID % NUM_COMPONENTS

\* One iteration of the fold in total_value: load a cell, add it.
\* (variant: the fold keeps the last cell instead of the sum)
total_value_last(acc, cell) == [acc |-> cell, cell |-> cell]
total_value(acc, cell) == [acc |-> (acc + cell) % Modulus, cell |-> cell]

\* One iteration of the loop in total_value_and_reset: swap(0), add.
\* (variant: a load where the swap(0) should be)
total_value_and_reset_load(acc, cell) == [acc |-> (acc + cell) % Modulus, cell |-> cell]
total_value_and_reset(acc, cell) == [acc |-> (acc + cell) % Modulus, cell |-> 0]

\* usize addition in a build with overflow checks (the dev and test
\* profiles): `acc + cell` panics when the sum does not fit in usize.
overflows(acc, cell) == acc + cell >= Modulus

\* Monotone's reset read is its plain read.
\* (variant: Monotone reset like Unsigned)
Monotone_value_and_reset_swap(acc, cell) == [acc |-> (acc + cell) % Modulus, cell |-> 0]
Monotone_value_and_reset(acc, cell) == total_value(acc, cell)

\* Minimum: one iteration of raw_value (load, min) and of raw_value_and_reset
\* (swap(usize::MAX), min).
\* (variants: the first cell with data instead of the smallest; a reset
\* that zeroes the cell instead of storing the sentinel)
Minimum_raw_value_first(acc, cell) ==
    [acc |-> IF acc = USIZE_MAX THEN cell ELSE acc, cell |-> cell]
Minimum_raw_value(acc, cell) == [acc |-> Min2(acc, cell), cell |-> cell]
Minimum_raw_value_and_reset_zero(acc, cell) ==
    [acc |-> IF cell < acc THEN cell ELSE acc, cell |-> 0]
Minimum_raw_value_and_reset(acc, cell) ==
    [acc |-> IF cell < acc THEN cell ELSE acc, cell |-> USIZE_MAX]

\* Maximum: one iteration of raw_value (load, max) and of raw_value_and_reset
\* (swap(usize::MIN), max).
\* (variant: the fold keeps the last cell instead of the largest)
Maximum_raw_value_last(acc, cell) == [acc |-> cell, cell |-> cell]
Maximum_raw_value(acc, cell) == [acc |-> Max2(acc, cell), cell |-> cell]
Maximum_raw_value_and_reset(acc, cell) ==
    [acc |-> IF cell > acc THEN cell ELSE acc, cell |-> USIZE_MIN]

\* Maximum: raw_value's Option (None when the maximum is usize::MIN) and the
\* unwrap_or(0) of value() / value_and_reset().
\* (variant: no data reported as the largest number, as Minimum does)
Maximum_value_max(max) == IF max = USIZE_MIN THEN USIZE_MAX ELSE max
Maximum_value(max) == IF max = USIZE_MIN THEN 0 ELSE max

\* The loop body a read runs on one cell, by counter type and operation.
ReadCell(k, op, acc, cell) ==
    CASE k = "Unsigned" /\ op = "value" -> total_value(acc, cell)
      [] k = "Unsigned" /\ op = "value_and_reset" -> total_value_and_reset(acc, cell)
      [] k = "Monotone" /\ op = "value" -> total_value(acc, cell)
      [] k = "Monotone" /\ op = "value_and_reset" -> Monotone_value_and_reset(acc, cell)
      [] k = "Minimum" /\ op = "value" -> Minimum_raw_value(acc, cell)
      [] k = "Minimum" /\ op = "value_and_reset" -> Minimum_raw_value_and_reset(acc, cell)
      [] k = "Maximum" /\ op = "value" -> Maximum_raw_value(acc, cell)
      [] k = "Maximum" /\ op = "value_and_reset" -> Maximum_raw_value_and_reset(acc, cell)
      [] k = "Signed" /\ op = "value" -> Signed_total_value(acc, cell)
      [] k = "Signed" /\ op = "value_and_reset" -> Signed_total_value_and_reset(acc, cell)

\* The accumulator a read starts from, and the CounterValue it returns.
Identity(k) == IF k = "Minimum" THEN USIZE_MAX ELSE 0
Result(k, acc) ==
    CASE k = "Maximum" -> AsU64(Maximum_value(acc))
      [] k = "Signed" -> AsI64(acc)
      [] OTHER -> AsU64(acc)

\* Option<usize>.
None == [some |-> FALSE, v |-> 0]
Some(x) == [some |-> TRUE, v |-> x]
unwrap_or(o, d) == IF o.some THEN o.v ELSE d

\* Average: the (sum, count) pair of atomics of one shard, as new() makes it.
SumCount_new == [sum |-> 0, count |-> 0]

\* Average::observe(value) adds value to the sum and 1 to the count.
\* (variant: the value added to the count as well)
Average_observe_twice(value) == [sum |-> value, count |-> value]
Average_observe(value) == [sum |-> value, count |-> 1]

\* Average: one iteration of the folds in sum() and count() (load, add) and
\* the two swaps of one iteration of raw_value_and_reset.
\* (variants: a reset that leaves the sum, resp. the count, in the cell)
Average_sum(acc, cell) ==
    [acc |-> [acc EXCEPT !.sum = (acc.sum + cell.sum) % Modulus], cell |-> cell]
Average_count(acc, cell) ==
    [acc |-> [acc EXCEPT !.count = (acc.count + cell.count) % Modulus], cell |-> cell]
Average_swap_sum_keep(acc, cell) ==
    [acc |-> [acc EXCEPT !.sum = (acc.sum + cell.sum) % Modulus], cell |-> cell]
Average_swap_sum(acc, cell) ==
    [acc |-> [acc EXCEPT !.sum = (acc.sum + cell.sum) % Modulus],
     cell |-> [cell EXCEPT !.sum = 0]]
Average_swap_count_keep(acc, cell) ==
    [acc |-> [acc EXCEPT !.count = (acc.count + cell.count) % Modulus], cell |-> cell]
Average_swap_count(acc, cell) ==
    [acc |-> [acc EXCEPT !.count = (acc.count + cell.count) % Modulus],
     cell |-> [cell EXCEPT !.count = 0]]

\* Average::average and Average::average_and_reset, from the two totals.
\* (variant: a division that rounds up)
Average_average_ceil(total_sum, total_count) ==
    IF total_count = 0 THEN None
    ELSE Some((total_sum + total_count - 1) \div total_count)
Average_average(total_sum, total_count) ==
    IF total_count = 0 THEN None ELSE Some(total_sum \div total_count)
Average_average_and_reset(sum, count) ==
    IF count = 0 THEN None ELSE Some(sum \div count)

\* The step of a read of an Average: which shard it accesses and what it
\* does.  value() runs sum() over all shards and then count() over all
\* shards; value_and_reset() swaps the sum and then the count of each shard.
Average_step(op, n, acc, cells) ==
    LET j == IF op = "value" THEN n % NUM_COMPONENTS ELSE n \div 2
        r == CASE op = "value" /\ n < NUM_COMPONENTS -> Average_sum(acc, cells[j])
               [] op = "value" /\ n >= NUM_COMPONENTS -> Average_count(acc, cells[j])
               [] op = "value_and_reset" /\ n % 2 = 0 -> Average_swap_sum(acc, cells[j])
               [] op = "value_and_reset" /\ n % 2 = 1 -> Average_swap_count(acc, cells[j])
    IN [acc |-> r.acc, cells |-> [cells EXCEPT ![j] = r.cell]]

\* u64::saturating_sub.
\* (variant: a subtraction that wraps)
wrapping_sub(a, b) == (a - b) % Modulus
saturating_sub(a, b) == IF a >= b THEN a - b ELSE 0

\* Instant::duration_since: zero when `earlier` is later than self.
duration_since(self, earlier) == IF self > earlier THEN self - earlier ELSE 0

\* An f64 rate, as the quotient the code computes it from; 0.0.
ZeroRate == [num |-> 0, den |-> 1]

\* Rate::rate, the arm of the first call: what it stores.
\* (variant: a first call that records no total)
Rate_none_no_total(current_value, now) ==
    [last_value |-> 0, last_instant |-> Some(now), rate |-> ZeroRate]
Rate_none(current_value, now) ==
    [last_value |-> current_value, last_instant |-> Some(now), rate |-> ZeroRate]

\* Rate::rate, the arm of the later calls: last_value.swap(current_value).
\* (variant: a load where the swap should be)
Rate_swap_load(old, current_value) == [last_val |-> old, last_value |-> old]
Rate_swap(old, current_value) == [last_val |-> old, last_value |-> current_value]

\* Rate::rate, the arm of the later calls: the value returned.
\* (variant: the total instead of the delta)
Rate_some_total(elapsed, current_value, last_val) ==
    IF elapsed > 0 THEN [num |-> current_value, den |-> elapsed] ELSE ZeroRate
Rate_some(elapsed, current_value, last_val) ==
    IF elapsed > 0
    THEN [num |-> saturating_sub(current_value, last_val), den |-> elapsed]
    ELSE ZeroRate

\* Option<String>::None.
NoString == [some |-> FALSE, v |-> ""]

\* Labeled: labels.iter().position(|(k, _)| k == key), the index (from 0) of
\* the first pair with that key.
RECURSIVE position_from(_, _, _)
position_from(v, key, i) ==
    IF i > Len(v) THEN None
    ELSE IF v[i][1] = key THEN Some(i - 1) ELSE position_from(v, key, i + 1)
position(v, key) == position_from(v, key, 1)

\* Vec::remove(pos): the elements after pos (from 0) shift left.
Vec_remove(v, pos) == SubSeq(v, 1, pos) \o SubSeq(v, pos + 2, Len(v))

\* Labeled::add_label and Labeled::with_label: the new label list.
\* (variant: a push without the search for the key)
add_label_push(v, key, value) == Append(v, <<key, value>>)
add_label(v, key, value) ==
    LET pos == position(v, key)
    IN IF pos.some THEN [v EXCEPT ![pos.v + 1] = <<v[pos.v + 1][1], value>>]
       ELSE Append(v, <<key, value>>)
with_label(v, key, value) ==
    LET pos == position(v, key)
    IN IF pos.some THEN [v EXCEPT ![pos.v + 1] = <<v[pos.v + 1][1], value>>]
       ELSE Append(v, <<key, value>>)

\* Labeled::remove_label: the new label list and the value returned.
remove_label(v, key) ==
    LET pos == position(v, key)
    IN IF pos.some
       THEN [labels |-> Vec_remove(v, pos.v), ret |-> Some(v[pos.v + 1][2])]
       ELSE [labels |-> v, ret |-> NoString]

\* Option<(&str, &str)>::None.
NoLabel == [some |-> FALSE, v |-> <<>>]

\* The sub-counters a labeled_group! invocation declares: an optional one
\* without label value, then n with the label values of GroupLabelValues.
Declared(total, n) ==
    (IF total THEN <<[label |-> NoString]>> ELSE <<>>)
        \o [i \in 1 .. n |-> [label |-> Some(GroupLabelValues[i])]]
Declarations == {Declared(total, n) : total \in BOOLEAN, n \in 1 .. MaxFields}

\* Unsigned::value() of a sub-counter: the fold of total_value over its cells.
RECURSIVE Unsigned_total_value(_, _)
Unsigned_total_value(cells, n) ==
    IF n = 0 THEN 0
    ELSE total_value(Unsigned_total_value(cells, n - 1), cells[n - 1]).acc
Unsigned_value(cells) == AsU64(Unsigned_total_value(cells, NUM_COMPONENTS))

\* expand() of a labeled group: one ObservableEntry per declared sub-counter,
\* in declaration order, with the group's name, the pair (label key, label
\* value) of the sub-counter when it has a label value, and its value().
Group_expand(g, counters) ==
    [i \in 1 .. Len(g) |->
        [name |-> GroupName,
         label |-> IF g[i].label.some THEN Some(<<GroupLabelKey, g[i].label.v>>)
                   ELSE NoLabel,
         value |-> Unsigned_value(counters[i])]]

\* CounterSnapshot::from_observable: one snapshot per entry of expand().
\* (variant: snapshots that drop the label)
CounterSnapshot_from_observable_unlabeled(entries) ==
    [i \in 1 .. Len(entries) |->
        [name |-> IF entries[i].name = "" THEN "(unnamed)" ELSE entries[i].name,
         label |-> NoLabel,
         value |-> entries[i].value]]
CounterSnapshot_from_observable(entries) ==
    [i \in 1 .. Len(entries) |->
        [name |-> IF entries[i].name = "" THEN "(unnamed)" ELSE entries[i].name,
         label |-> IF entries[i].label.some
                   THEN Some(<<entries[i].label.v[1], entries[i].label.v[2]>>)
                   ELSE NoLabel,
         value |-> entries[i].value]]

\* The initial content of a cell (new()).
new(k) ==
    CASE k = "Minimum" -> USIZE_MAX
      [] k = "Average" -> SumCount_new
      [] OTHER -> 0

\* observe(): the loop condition (value strictly better than current), and
\* the Err(actual) arm of the compare_exchange_weak.
\* (variants: a loop that stores any different value; an Err arm that
\* forgets to reload `current`)
Better_unequal(k, v, cur) == v # cur
Better(k, v, cur) == IF k = "Minimum" THEN v < cur ELSE v > cur
on_cas_err_keep(cur, actual) == cur
on_cas_err(cur, actual) == actual

\* observe(): compare_exchange_weak(current, value) can return Ok only when
\* the cell holds `current`.
\* (variant: a plain store, which succeeds whatever the cell holds)
compare_exchange_weak_store(cell, cur) == TRUE
compare_exchange_weak(cell, cur) == cell = cur

\* Sum of f[lo..hi] (history only: the code never sees all cells at once).
RECURSIVE SumFrom(_, _, _)
SumFrom(f, lo, hi) == IF hi < lo THEN 0 ELSE f[hi] + SumFrom(f, lo, hi - 1)
SumCells == SumFrom(components, 0, NUM_COMPONENTS - 1)

\* Extremum of all cells at one instant (history only).
RECURSIVE FoldCells(_, _)
FoldCells(k, n) ==
    IF n = 0 THEN Identity(k)
    ELSE IF k = "Minimum" THEN Min2(components[n - 1], FoldCells(k, n - 1))
                          ELSE Max2(components[n - 1], FoldCells(k, n - 1))

\* ------------------------------------------------------------------ state
IdleRd == [pc |-> "idle", op |-> "value", i |-> 0, acc |-> 0, clean |-> TRUE]
\* A sampling thread outside rate(), and the locals of rate().
IdleSampler ==
    [pc |-> "idle", now |-> 0, i |-> 0, acc |-> 0, current_value |-> 0,
     last_time |-> None, last_val |-> 0]
\* History of a sampling thread: n calls returned; of the latest one the
\* value returned, whether its elapsed time was positive (timed) and whether
\* its total was below the last value it swapped out (clamped).
NotSampled == [n |-> 0, rate |-> ZeroRate, timed |-> FALSE, clamped |-> FALSE]
\* History of the adds around the calls of a single sampling thread: the
\* amounts added before its first call began (base); whether an add was
\* made since the call in progress or the latest call began (dirty), and
\* between the beginnings of the call before and of that one (prevDirty),
\* and while the thread was between that call and the one before (gap, and
\* idleAdd for the time since the latest call returned).  For the reset
\* reads of a sum counter: the sum of the values they returned (collected).
\* For a Minimum or a Maximum: the values of the observe() calls that have
\* returned (observed), the values the reset reads returned (reported), and
\* whether a compare_exchange_weak succeeded on a cell that had changed and
\* had come back to the value the worker loaded (aba).  For an Average: the
\* totals of the sums and of the counts the reset reads returned (sums,
\* counts), the sum of the values passed to observe() and the number of
\* observe() calls (seenSum, seenCount).  For a value() of a Monotone: the
\* sum of all amounts added when the read began (startTotal) and the amounts
\* added since then (during).  For the rate() calls of a single thread: the
\* total the first call read (firstRead) and the one the latest call read
\* (prevRead), the sum of the deltas the calls divided by their elapsed
\* time (deltas), and the sum of the differences between the total a call
\* read and the last value it swapped out (diffs); whether a call after the
\* first had zero elapsed time (zeroed) and the sum of the amounts added
\* when the latest such call began (lostBefore); which read of the Rate the
\* call in progress, or the latest call, is (op).  For set_local_value: the
\* thread whose set_local_value(set) was the latest write to the counter
\* (setBy, 0 when the latest write was another one), the cells before that
\* call (before), and in op the latest call of a worker.  For the
\* observations of a sentinel: in set the value of the latest observe().
NoWindow ==
    [base |-> 0, dirty |-> FALSE, prevDirty |-> FALSE, gap |-> FALSE, idleAdd |-> FALSE,
     collected |-> 0, observed |-> {}, reported |-> {}, aba |-> FALSE,
     sums |-> 0, counts |-> 0, seenSum |-> 0, seenCount |-> 0,
     startTotal |-> 0, during |-> <<>>,
     firstRead |-> 0, prevRead |-> 0, deltas |-> 0, diffs |-> 0,
     zeroed |-> FALSE, lostBefore |-> 0, op |-> "none",
     setBy |-> 0, set |-> 0, before |-> <<>>,
     via |-> "unset", kinds |-> {}]
\* OtelObserver::new: a meter without instruments, no register() called yet.
NewOtel == [pc |-> "new", counters |-> <<>>, i |-> 0, instruments |-> <<>>, result |-> "none"]
NoRead == [op |-> "none", val |-> -1, clean |-> TRUE, prevVal |-> -1]
\* History of a Labeled: no call made yet.
NoCall == [op |-> "new", key |-> "", value |-> "", before |-> <<>>, ret |-> NoString]

InitObserver ==
    /\ calls = [t \in Threads |-> 0]
    /\ nCalls = 0
    /\ window = NoWindow
    /\ pc = [t \in Threads |-> "idle"]
    /\ current = [t \in Threads |-> 0]
    /\ arg = [t \in Threads |-> 0]
    /\ stale = [t \in Threads |-> FALSE]
    /\ retried = FALSE
    /\ rd = IdleRd
    /\ last = NoRead
    /\ reads = 0
    /\ nResets = 0
    /\ added = 0
    /\ subbed = 0
    /\ collected = 0
    /\ everRaced = FALSE
    /\ last_value = 0
    /\ last_instant = None
    /\ clock = 0
    /\ sampler = [s \in Samplers |-> IdleSampler]
    /\ sampled = [s \in Samplers |-> NotSampled]
    /\ labels = <<>>
    /\ called = NoCall
    /\ snapshot = <<>>
    /\ touched = [t \in Threads |-> {}]
    /\ otel = NewOtel

\* A new counter in a process where no thread has touched a counter yet.
Init ==
    /\ NEXT_SLOT_ID = 0
    /\ THREAD_SLOT_INDEX = [t \in Threads |-> NoSlot]
    /\ InitObserver
    /\ group = <<>>
    /\ subs = <<>>
    /\ kind \in SumKinds
    /\ components = [i \in Shards |-> new(kind)]
    /\ best = new(kind)
    /\ sinceReset = new(kind)

\* A new counter when every thread's slot is already assigned: the slot is
\* taken at a thread's first operation on any counter of the process (here
\* the threads took theirs in thread order).
\* A new labeled group of Unsigned sub-counters in a process where no thread
\* has touched a counter yet.
InitGroup ==
    /\ NEXT_SLOT_ID = 0
    /\ THREAD_SLOT_INDEX = [t \in Threads |-> NoSlot]
    /\ InitObserver
    /\ group \in Declarations
    /\ subs = [f \in 1 .. Len(group) |-> [i \in Shards |-> new("Unsigned")]]
    /\ kind = "Unsigned"
    /\ components = [i \in Shards |-> new(kind)]
    /\ best = new(kind)
    /\ sinceReset = new(kind)

InitRegistered(kinds) ==
    /\ NEXT_SLOT_ID = NUM_COMPONENTS + 1
    /\ THREAD_SLOT_INDEX = [t \in Threads |-> (t - 1) % NUM_COMPONENTS]
    /\ InitObserver
    /\ group = <<>>
    /\ subs = <<>>
    /\ kind \in kinds
    /\ components = [i \in Shards |-> new(kind)]
    /\ best = new(kind)
    /\ sinceReset = new(kind)

AllDone == \A t \in Threads : calls[t] = MaxCalls
AllIdle == \A t \in Threads : pc[t] = "idle"

\* ---------------------------------------------------------------- actions
\* First counter operation of a thread: the lazy thread-local initialiser
\* takes the next slot with one fetch_add on NEXT_SLOT_ID.
Register(t) ==
    /\ THREAD_SLOT_INDEX[t] = NoSlot
    /\ THREAD_SLOT_INDEX' = [THREAD_SLOT_INDEX EXCEPT ![t] = get_next_slot_id]
    /\ NEXT_SLOT_ID' = (NEXT_SLOT_ID + 1) % Modulus
    /\ UNCHANGED <<wrapVars, rateVars, kind, components, loopVars, casVars, readVars,
                   sumHist, everRaced>>

\* A write that happens while a read is walking the shards makes it unclean.
Racing == rd.pc = "walk"
MarkRace ==
    /\ rd' = IF Racing THEN [rd EXCEPT !.clean = FALSE] ELSE rd
    /\ everRaced' = (everRaced \/ Racing)

\* (variant: an add that waits for the observer's read to end)
add_locked(t, v) ==
    /\ rd.pc = "idle"
    /\ kind \in SumKinds
    /\ THREAD_SLOT_INDEX[t] # NoSlot
    /\ LET i == THREAD_SLOT_INDEX[t]
       IN components' = [components EXCEPT ![i] = fetch_add(components[i], v)]
    /\ MarkRace
    /\ sinceReset' = IF everRaced' THEN 0 ELSE sinceReset + v
    /\ added' = added + v
    /\ UNCHANGED <<wrapVars, slotVars, rateVars, kind, casVars, last, reads, nResets, subbed, collected>>

\* add(v): one fetch_add on the calling thread's cell.
add(t, v) ==
    /\ kind \in SumKinds
    /\ THREAD_SLOT_INDEX[t] # NoSlot
    /\ LET i == THREAD_SLOT_INDEX[t]
       IN components' = [components EXCEPT ![i] = fetch_add(components[i], v)]
    /\ MarkRace
    /\ sinceReset' = IF everRaced' THEN 0 ELSE sinceReset + v
    /\ added' = added + v
    /\ UNCHANGED <<wrapVars, slotVars, rateVars, kind, casVars, last, reads, nResets, subbed, collected>>

\* Unsigned::sub(v): one fetch_sub on the calling thread's cell.
sub(t, v) ==
    /\ kind = "Unsigned"
    /\ THREAD_SLOT_INDEX[t] # NoSlot
    /\ LET i == THREAD_SLOT_INDEX[t]
       IN components' = [components EXCEPT ![i] = fetch_sub(components[i], v)]
    /\ MarkRace
    /\ subbed' = subbed + v
    /\ UNCHANGED <<wrapVars, slotVars, rateVars, kind, casVars, last, reads, nResets, added, collected,
                   sinceReset>>

\* Signed::add(v): one fetch_add on the calling thread's cell.
Signed_add(t, v) ==
    /\ kind = "Signed"
    /\ THREAD_SLOT_INDEX[t] # NoSlot
    /\ LET i == THREAD_SLOT_INDEX[t]
       IN components' = [components EXCEPT ![i] = Signed_fetch_add(components[i], v)]
    /\ MarkRace
    /\ sinceReset' = IF everRaced' THEN 0 ELSE sinceReset + v
    /\ added' = added + v
    /\ UNCHANGED <<wrapVars, slotVars, rateVars, kind, casVars, last, reads, nResets, subbed, collected>>

\* Signed::sub(v): one fetch_sub on the calling thread's cell.
Signed_sub(t, v) ==
    /\ kind = "Signed"
    /\ THREAD_SLOT_INDEX[t] # NoSlot
    /\ LET i == THREAD_SLOT_INDEX[t]
       IN components' = [components EXCEPT ![i] = Signed_fetch_sub(components[i], v)]
    /\ MarkRace
    /\ sinceReset' = IF everRaced' THEN 0 ELSE sinceReset - v
    /\ subbed' = subbed + v
    /\ UNCHANGED <<wrapVars, slotVars, rateVars, kind, casVars, last, reads, nResets, added, collected>>

\* Average: the first fetch_add of observe() / observe_many(), on the sum of
\* the calling thread's shard; the fetch_add on the count is still to come.
Average_fetch_add_sum(t, sum, count) ==
    /\ kind = "Average"
    /\ THREAD_SLOT_INDEX[t] # NoSlot
    /\ pc[t] = "idle"
    /\ LET i == THREAD_SLOT_INDEX[t]
       IN components' = [components EXCEPT ![i].sum = fetch_add(@, sum)]
    /\ pc' = [pc EXCEPT ![t] = "count"]
    /\ arg' = [arg EXCEPT ![t] = count]
    /\ MarkRace
    /\ sinceReset' = IF everRaced' THEN SumCount_new
                     ELSE [sum |-> sinceReset.sum + sum, count |-> sinceReset.count + count]
    /\ UNCHANGED <<wrapVars, slotVars, rateVars, kind, current, best, stale, retried, last, reads, nResets,
                   added, subbed, collected>>

Average_observe_sum(t, value) ==
    LET a == Average_observe(value) IN Average_fetch_add_sum(t, a.sum, a.count)

Average_observe_many_sum(t, sum, count) == Average_fetch_add_sum(t, sum, count)

\* Average: the second fetch_add of observe() / observe_many(), on the count.
Average_fetch_add_count(t) ==
    /\ kind = "Average"
    /\ pc[t] = "count"
    /\ LET i == THREAD_SLOT_INDEX[t]
       IN components' = [components EXCEPT ![i].count = fetch_add(@, arg[t])]
    /\ pc' = [pc EXCEPT ![t] = "idle"]
    /\ arg' = [arg EXCEPT ![t] = 0]
    /\ MarkRace
    /\ sinceReset' = IF everRaced' THEN SumCount_new ELSE sinceReset
    /\ UNCHANGED <<wrapVars, slotVars, rateVars, kind, current, best, stale, retried, last, reads, nResets,
                   added, subbed, collected>>

\* Average::add_sum(value): one fetch_add on the sum of the thread's shard.
Average_add_sum(t, value) ==
    /\ kind = "Average"
    /\ THREAD_SLOT_INDEX[t] # NoSlot
    /\ pc[t] = "idle"
    /\ LET i == THREAD_SLOT_INDEX[t]
       IN components' = [components EXCEPT ![i].sum = fetch_add(@, value)]
    /\ MarkRace
    /\ sinceReset' = IF everRaced' THEN SumCount_new
                     ELSE [sinceReset EXCEPT !.sum = @ + value]
    /\ UNCHANGED <<wrapVars, slotVars, rateVars, kind, casVars, last, reads, nResets, added, subbed,
                   collected>>

\* Average::add_count(value): one fetch_add on the count of the thread's shard.
Average_add_count(t, value) ==
    /\ kind = "Average"
    /\ THREAD_SLOT_INDEX[t] # NoSlot
    /\ pc[t] = "idle"
    /\ LET i == THREAD_SLOT_INDEX[t]
       IN components' = [components EXCEPT ![i].count = fetch_add(@, value)]
    /\ MarkRace
    /\ sinceReset' = IF everRaced' THEN SumCount_new
                     ELSE [sinceReset EXCEPT !.count = @ + value]
    /\ UNCHANGED <<wrapVars, slotVars, rateVars, kind, casVars, last, reads, nResets, added, subbed,
                   collected>>

\* Average::incr(): one fetch_add(1) on the count of the thread's shard.
Average_incr(t) == Average_add_count(t, Average_observe(0).count)

\* One step of a read of an Average by the observer: the call's next atomic
\* access; the last access also returns.  value() is average().unwrap_or(0),
\* value_and_reset() is average_and_reset().unwrap_or(0); the totals are what
\* sum() and count(), resp. sum_count_and_reset(), return.
Average_Read(op) ==
    /\ kind = "Average"
    /\ rd.pc = "idle" \/ rd.op = op
    /\ LET n == IF rd.pc = "idle" THEN 0 ELSE rd.i
           acc == IF rd.pc = "idle" THEN SumCount_new ELSE rd.acc
           clean == IF rd.pc = "idle" THEN TRUE ELSE rd.clean
           r == Average_step(op, n, acc, components)
           isReset == op = "value_and_reset"
           avg == IF isReset THEN Average_average_and_reset(r.acc.sum, r.acc.count)
                             ELSE Average_average(r.acc.sum, r.acc.count)
       IN /\ components' = r.cells
          /\ everRaced' = (everRaced \/ ~AllIdle)
          /\ IF n + 1 < 2 * NUM_COMPONENTS
             THEN /\ rd' = [pc |-> "walk", op |-> op, i |-> n + 1, acc |-> r.acc,
                            clean |-> clean]
                  /\ sinceReset' = IF everRaced' THEN SumCount_new ELSE sinceReset
                  /\ UNCHANGED <<last, reads, nResets>>
             ELSE /\ rd' = IdleRd
                  /\ last' = [op |-> op, val |-> AsU64(unwrap_or(avg, 0)),
                              clean |-> clean, prevVal |-> last.val,
                              sum |-> r.acc.sum, count |-> r.acc.count, average |-> avg]
                  /\ reads' = reads + 1
                  /\ nResets' = IF isReset THEN nResets + 1 ELSE nResets
                  /\ sinceReset' = IF everRaced' \/ isReset THEN SumCount_new
                                   ELSE sinceReset
    /\ UNCHANGED <<wrapVars, slotVars, rateVars, kind, casVars, added, subbed, collected>>

Average_value == Average_Read("value")
Average_value_and_reset == Average_Read("value_and_reset")

\* Rate::add(v): one fetch_add on the calling thread's cell.
Rate_add(t, v) ==
    /\ kind = "Rate"
    /\ THREAD_SLOT_INDEX[t] # NoSlot
    /\ LET i == THREAD_SLOT_INDEX[t]
       IN components' = [components EXCEPT ![i] = fetch_add(components[i], v)]
    /\ added' = added + v
    /\ UNCHANGED <<wrapVars, slotVars, kind, casVars, readVars, subbed, collected, sinceReset,
                   everRaced, rateVars>>

\* rate(): Instant::now().  The clock is monotonic and nothing else reads
\* it: it shows the instant it showed last, or a later one.
Rate_now(s) ==
    /\ kind = "Rate"
    /\ sampler[s].pc = "idle"
    /\ clock' \in {i \in Instants : i >= clock}
    /\ sampler' = [sampler EXCEPT ![s] = [IdleSampler EXCEPT !.pc = "walk", !.now = clock']]
    /\ UNCHANGED <<wrapVars, slotVars, kind, components, casVars, readVars, sumHist, everRaced,
                   last_value, last_instant, sampled>>

\* rate(): one load of the fold in total_value(); after the last one the
\* total is cast to u64.
Rate_total_value(s) ==
    /\ sampler[s].pc = "walk"
    /\ LET r == sampler[s]
           x == total_value(r.acc, components[r.i])
       IN sampler' = [sampler EXCEPT ![s] =
                        IF r.i + 1 < NUM_COMPONENTS
                        THEN [r EXCEPT !.i = r.i + 1, !.acc = x.acc]
                        ELSE [r EXCEPT !.pc = "instant", !.acc = x.acc,
                                       !.current_value = AsU64(x.acc)]]
    /\ UNCHANGED <<wrapVars, slotVars, kind, components, casVars, readVars, sumHist, everRaced,
                   last_value, last_instant, clock, sampled>>

\* rate(): last_instant.load(), the scrutinee of the match.
Rate_load_instant(s) ==
    /\ sampler[s].pc = "instant"
    /\ sampler' = [sampler EXCEPT ![s] = [sampler[s] EXCEPT !.pc = "value",
                                                            !.last_time = last_instant]]
    /\ UNCHANGED <<wrapVars, slotVars, kind, components, casVars, readVars, sumHist, everRaced,
                   last_value, last_instant, clock, sampled>>

\* rate(): the access of last_value: swap(current_value) when there was an
\* instant, store(current_value) in the first call.
Rate_last_value(s) ==
    /\ sampler[s].pc = "value"
    /\ LET r == sampler[s]
       IN IF r.last_time.some
          THEN LET w == Rate_swap(last_value, r.current_value)
               IN /\ last_value' = w.last_value
                  /\ sampler' = [sampler EXCEPT ![s] = [r EXCEPT !.pc = "store",
                                                                 !.last_val = w.last_val]]
          ELSE /\ last_value' = Rate_none(r.current_value, r.now).last_value
               /\ sampler' = [sampler EXCEPT ![s] = [r EXCEPT !.pc = "store"]]
    /\ UNCHANGED <<wrapVars, slotVars, kind, components, casVars, readVars, sumHist, everRaced,
                   last_instant, clock, sampled>>

\* rate(): last_instant.store(Some(now)), and the call returns the rate.
Rate_store_instant(s) ==
    /\ sampler[s].pc = "store"
    /\ LET r == sampler[s]
           elapsed == IF r.last_time.some THEN duration_since(r.now, r.last_time.v) ELSE 0
           ret == IF r.last_time.some
                  THEN Rate_some(elapsed, r.current_value, r.last_val)
                  ELSE Rate_none(r.current_value, r.now).rate
       IN /\ last_instant' = IF r.last_time.some THEN Some(r.now)
                             ELSE Rate_none(r.current_value, r.now).last_instant
          /\ sampled' = [sampled EXCEPT ![s] =
                            [sampled[s] EXCEPT !.n = @ + 1, !.rate = ret,
                                               !.timed = elapsed > 0,
                                               !.clamped = r.current_value < r.last_val]]
    /\ sampler' = [sampler EXCEPT ![s] = IdleSampler]
    /\ reads' = reads + 1
    /\ UNCHANGED <<wrapVars, slotVars, kind, components, casVars, rd, last, nResets, sumHist,
                   everRaced, last_value, clock>>

\* AtomicUsize::store / AtomicIsize::store: the new content of the cell.
\* (variant: an addition where the store should be)
store_fetch_add(cell, v) == cell + v
store(cell, v) == v

\* Rate::rate(): the step the call of thread s takes next.
Rate_rate(s) ==
    \/ Rate_now(s)
    \/ Rate_total_value(s)
    \/ Rate_load_instant(s)
    \/ Rate_last_value(s)
    \/ Rate_store_instant(s)

\* Observable::value() of a Rate: CounterValue::Float(self.rate()).
Rate_value(s) == Rate_rate(s)

\* A rate() whose walk takes each cell with swap(0), as the reset reads of
\* the other counters do.
Rate_total_value_and_reset(s) ==
    /\ sampler[s].pc = "walk"
    /\ LET r == sampler[s]
           x == total_value_and_reset(r.acc, components[r.i])
       IN /\ components' = [components EXCEPT ![r.i] = x.cell]
          /\ sampler' = [sampler EXCEPT ![s] =
                           IF r.i + 1 < NUM_COMPONENTS
                           THEN [r EXCEPT !.i = r.i + 1, !.acc = x.acc]
                           ELSE [r EXCEPT !.pc = "instant", !.acc = x.acc,
                                          !.current_value = AsU64(x.acc)]]
    /\ UNCHANGED <<wrapVars, slotVars, kind, casVars, readVars, sumHist, everRaced,
                   last_value, last_instant, clock, sampled>>

\* sealed::Resettable::value_and_reset() of a Rate:
\* CounterValue::Float(self.rate()).
\* (variant: a value_and_reset() that empties the cells as it reads them)
Rate_value_and_reset_swap(s) ==
    \/ Rate_now(s)
    \/ Rate_total_value_and_reset(s)
    \/ Rate_load_instant(s)
    \/ Rate_last_value(s)
    \/ Rate_store_instant(s)
Rate_value_and_reset(s) == Rate_rate(s)

\* The three reads of a Rate.
RateOps == {"rate", "value", "value_and_reset"}
Rate_Read(op, s) ==
    \/ op = "rate" /\ Rate_rate(s)
    \/ op = "value" /\ Rate_value(s)
    \/ op = "value_and_reset" /\ Rate_value_and_reset(s)

\* Everything but the label list of a Labeled and the record of its calls.
innerVars == <<groupVars, slotVars, rateVars, kind, components, loopVars, casVars, readVars,
               sumHist, everRaced>>

\* Labeled::with_label(key, value).
Labeled_with_label(key, value) ==
    /\ labels' = with_label(labels, key, value)
    /\ called' = [op |-> "with_label", key |-> key, value |-> value, before |-> labels,
                  ret |-> NoString]
    /\ UNCHANGED innerVars

\* Labeled::add_label(key, value).
Labeled_add_label(key, value) ==
    /\ labels' = add_label(labels, key, value)
    /\ called' = [op |-> "add_label", key |-> key, value |-> value, before |-> labels,
                  ret |-> NoString]
    /\ UNCHANGED innerVars

\* Labeled::remove_label(key).
Labeled_remove_label(key) ==
    /\ LET r == remove_label(labels, key)
       IN /\ labels' = r.labels
          /\ called' = [op |-> "remove_label", key |-> key, value |-> "",
                        before |-> labels, ret |-> r.ret]
    /\ UNCHANGED innerVars

\* group.<field>.add(v): Unsigned::add on sub-counter f of the group, one
\* fetch_add on the calling thread's cell of that sub-counter.
Group_add(t, f, v) ==
    /\ f \in 1 .. Len(group)
    /\ THREAD_SLOT_INDEX[t] # NoSlot
    /\ LET i == THREAD_SLOT_INDEX[t]
       IN /\ subs' = [subs EXCEPT ![f][i] = fetch_add(@, v)]
          /\ touched' = [touched EXCEPT ![t] = @ \cup {<<f, i>>}]
    /\ UNCHANGED <<labels, called, group, snapshot, otel, slotVars, rateVars, kind, components,
                   casVars, readVars, sumHist, everRaced>>

\* MetricsSnapshot::collect over the group alone: the snapshots of the
\* entries the group expands to.
MetricsSnapshot_collect ==
    /\ group # <<>>
    /\ snapshot' = CounterSnapshot_from_observable(Group_expand(group, subs))
    /\ UNCHANGED <<labels, called, group, subs, touched, otel, slotVars, rateVars, kind,
                   components, loopVars, casVars, readVars, sumHist, everRaced>>

\* The workers in the CAS loop on cell i see it change from under them.
Invalidate(i, self) ==
    [t \in Threads |->
        IF t # self /\ pc[t] = "cas" /\ THREAD_SLOT_INDEX[t] = i
           /\ components'[i] # components[i]
        THEN TRUE ELSE stale[t]]

\* observe(v), up to the first test of the loop condition: load the cell;
\* the call is over when v is not strictly better than what was loaded.
observe(t, v) ==
    /\ kind \in ExtKinds
    /\ THREAD_SLOT_INDEX[t] # NoSlot
    /\ pc[t] = "idle"
    /\ LET cur == components[THREAD_SLOT_INDEX[t]]
       IN IF Better(kind, v, cur)
          THEN /\ pc' = [pc EXCEPT ![t] = "cas"]
               /\ current' = [current EXCEPT ![t] = cur]
               /\ arg' = [arg EXCEPT ![t] = v]
          ELSE UNCHANGED <<pc, current, arg>>
    /\ best' = IF kind = "Minimum" THEN Min2(best, v) ELSE Max2(best, v)
    /\ MarkRace
    /\ sinceReset' = IF everRaced' THEN new(kind)
                     ELSE IF kind = "Minimum" THEN Min2(sinceReset, v)
                                              ELSE Max2(sinceReset, v)
    /\ UNCHANGED <<wrapVars, slotVars, rateVars, kind, components, stale, retried, last, reads, nResets,
                   added, subbed, collected>>

\* observe(): a compare_exchange_weak that finds `current` in the cell and
\* stores the value; the loop breaks.
cas_ok(t) ==
    /\ pc[t] = "cas"
    /\ LET i == THREAD_SLOT_INDEX[t]
       IN /\ compare_exchange_weak(components[i], current[t])
          /\ components' = [components EXCEPT ![i] = arg[t]]
          /\ stale' = [Invalidate(i, t) EXCEPT ![t] = FALSE]
    /\ pc' = [pc EXCEPT ![t] = "idle"]
    /\ current' = [current EXCEPT ![t] = 0]
    /\ arg' = [arg EXCEPT ![t] = 0]
    /\ MarkRace
    /\ UNCHANGED <<wrapVars, slotVars, rateVars, kind, best, retried, last, reads, nResets, sumHist>>

\* observe(): a compare_exchange_weak that finds another value in the cell:
\* Err(actual), and the loop condition is tested again.
cas_err(t) ==
    /\ pc[t] = "cas"
    /\ LET actual == components[THREAD_SLOT_INDEX[t]]
           cur == on_cas_err(current[t], actual)
       IN /\ actual # current[t]
          /\ IF Better(kind, arg[t], cur)
             THEN /\ current' = [current EXCEPT ![t] = cur]
                  /\ UNCHANGED <<pc, arg>>
             ELSE /\ pc' = [pc EXCEPT ![t] = "idle"]
                  /\ current' = [current EXCEPT ![t] = 0]
                  /\ arg' = [arg EXCEPT ![t] = 0]
    /\ stale' = [stale EXCEPT ![t] = FALSE]
    /\ retried' = TRUE
    /\ MarkRace
    /\ UNCHANGED <<wrapVars, slotVars, rateVars, kind, components, best, last, reads, nResets,
                   sumHist>>

\* observe(): a compare_exchange_weak that fails although the cell holds
\* `current` (the weak form may): Err(current), nothing changes, retry.
cas_spurious(t) ==
    /\ pc[t] = "cas"
    /\ components[THREAD_SLOT_INDEX[t]] = current[t]
    /\ UNCHANGED <<wrapVars, slotVars, rateVars, kind, components, casVars, readVars, sumHist, everRaced>>

\* One step of a read (value() or value_and_reset()) of the observer: the
\* call's next atomic access of a cell; the access of the last cell also
\* returns the aggregate.  A step taken while a worker is inside observe()
\* overlaps that call.
Read(op) ==
    /\ rd.pc = "idle" \/ rd.op = op
    /\ LET i == IF rd.pc = "idle" THEN 0 ELSE rd.i
           acc == IF rd.pc = "idle" THEN Identity(kind) ELSE rd.acc
           clean == IF rd.pc = "idle" THEN TRUE ELSE rd.clean
           r == ReadCell(kind, op, acc, components[i])
           isReset == op = "value_and_reset"
       IN /\ components' = [components EXCEPT ![i] = r.cell]
          /\ stale' = Invalidate(i, 0)
          /\ everRaced' = (everRaced \/ ~AllIdle)
          /\ IF i + 1 < NUM_COMPONENTS
             THEN /\ rd' = [pc |-> "walk", op |-> op, i |-> i + 1, acc |-> r.acc,
                            clean |-> clean]
                  /\ sinceReset' = IF everRaced' THEN new(kind) ELSE sinceReset
                  /\ UNCHANGED <<last, reads, nResets, collected>>
             ELSE /\ rd' = IdleRd
                  /\ last' = [op |-> op, val |-> Result(kind, r.acc), clean |-> clean,
                              prevVal |-> last.val]
                  /\ reads' = reads + 1
                  /\ nResets' = IF isReset THEN nResets + 1 ELSE nResets
                  /\ collected' = IF isReset /\ kind = "Unsigned"
                                  THEN collected + r.acc ELSE collected
                  /\ sinceReset' = IF everRaced' \/ (isReset /\ kind # "Monotone")
                                   THEN new(kind) ELSE sinceReset
    /\ UNCHANGED <<wrapVars, slotVars, rateVars, kind, pc, current, arg, best, retried, added, subbed>>

value == Read("value")
value_and_reset == Read("value_and_reset")

\* The step of a read of an Unsigned in a build with overflow checks, when
\* the sum of the accumulator and of the cell does not fit in usize: the
\* addition in .sum(), resp. `total += ...`, panics and the call unwinds.
\* value_and_reset() has swapped the cell by then, and the partial sum is
\* dropped with the call.
Read_overflow(op) ==
    /\ kind = "Unsigned"
    /\ rd.pc = "idle" \/ rd.op = op
    /\ LET i == IF rd.pc = "idle" THEN 0 ELSE rd.i
           acc == IF rd.pc = "idle" THEN Identity(kind) ELSE rd.acc
           clean == IF rd.pc = "idle" THEN TRUE ELSE rd.clean
           r == ReadCell(kind, op, acc, components[i])
       IN /\ overflows(acc, components[i])
          /\ components' = [components EXCEPT ![i] = r.cell]
          /\ last' = [op |-> "panic", val |-> 0, clean |-> clean, prevVal |-> last.val]
    /\ rd' = IdleRd
    /\ reads' = reads + 1
    /\ everRaced' = (everRaced \/ ~AllIdle)
    /\ UNCHANGED <<wrapVars, slotVars, rateVars, kind, casVars, nResets, sumHist>>

\* The counters with set_local_value, and the values passed to it.
SetKinds == {"Unsigned", "Signed", "Minimum"}
SetVals(k) == IF k = "Signed" THEN -MaxVal .. MaxVal ELSE 0 .. MaxVal

\* set_local_value(v) of Unsigned, Signed and Minimum: one store on the
\* calling thread's cell.
set_local_value(t, v) ==
    /\ kind \in SetKinds
    /\ THREAD_SLOT_INDEX[t] # NoSlot
    /\ pc[t] = "idle"
    /\ LET i == THREAD_SLOT_INDEX[t]
       IN /\ components' = [components EXCEPT ![i] = store(components[i], v)]
          /\ stale' = Invalidate(i, t)
    /\ MarkRace
    /\ sinceReset' = new(kind)
    /\ UNCHANGED <<wrapVars, slotVars, rateVars, kind, pc, current, arg, best, retried, last,
                   reads, nResets, added, subbed, collected>>

\* local_value() of Unsigned, Signed and Minimum: one load of the calling
\* thread's cell, returned as it is.
local_value(t) ==
    /\ kind \in SetKinds
    /\ THREAD_SLOT_INDEX[t] # NoSlot
    /\ pc[t] = "idle"
    /\ last' = [op |-> "local_value", val |-> components[THREAD_SLOT_INDEX[t]],
                clean |-> TRUE, prevVal |-> last.val, t |-> t]
    /\ reads' = reads + 1
    /\ UNCHANGED <<wrapVars, slotVars, rateVars, kind, components, casVars, rd, nResets, sumHist,
                   everRaced>>

\* Resettable<T>::value(): the wrapped counter's value_and_reset().
\* (variant: a wrapper that calls the wrapped counter's value())
Resettable_value_plain == value
Resettable_value == value_and_reset

\* NonResettable<T>::value() and ::value_and_reset(): both are the wrapped
\* counter's value().
\* (variant: a value_and_reset() that calls the wrapped counter's)
NonResettable_value == value
NonResettable_value_and_reset_inner == value_and_reset
NonResettable_value_and_reset == value

\* MetricKind: what a counter says it is to the exporters.
MetricKind == {"Counter", "Gauge", "Histogram"}

\* Observable::metric_kind(), the trait's default: a gauge.
Observable_metric_kind == "Gauge"

\* Monotone's metric_kind(): MetricKind::Counter.
Monotone_metric_kind == "Counter"

\* Rate's metric_kind(): MetricKind::Gauge.
Rate_metric_kind == "Gauge"

\* metric_kind() of a counter of type k: Monotone and Rate implement it,
\* the other types leave it to the trait.
metric_kind(k) ==
    CASE k = "Monotone" -> Monotone_metric_kind
      [] k = "Rate" -> Rate_metric_kind
      [] OTHER -> Observable_metric_kind

\* Labeled<T>::metric_kind(): self.inner.metric_kind().
Labeled_metric_kind(k) == metric_kind(k)

\* Resettable<T>::metric_kind(): self.inner.metric_kind().
\* (variant: a wrapper that leaves metric_kind() to the trait)
Resettable_metric_kind_default(k) == Observable_metric_kind
Resettable_metric_kind(k) == metric_kind(k)

\* NonResettable<T>::metric_kind(): self.inner.metric_kind().
NonResettable_metric_kind(k) == metric_kind(k)

\* How a counter is handed to an exporter: as it is, or inside an adapter.
Wrappers == {"none", "Labeled", "Resettable", "NonResettable"}

\* counter.metric_kind() on a &dyn Observable that is a counter of type k
\* inside the adapter w.
dyn_metric_kind(w, k) ==
    CASE w = "Labeled" -> Labeled_metric_kind(k)
      [] w = "Resettable" -> Resettable_metric_kind(k)
      [] w = "NonResettable" -> NonResettable_metric_kind(k)
      [] OTHER -> metric_kind(k)

\* The names of the static counters handed to an exporter: "" is the name of
\* a counter built without with_name().
CounterNames == {"", "requests_total", "latency_ms"}

\* The static counters handed to OtelObserver::register.
StaticCounters == [name : CounterNames, kind : {"Monotone", "Unsigned"}]

RECURSIVE SeqsUpTo(_, _)
\* The slices of at most n elements of S.
SeqsUpTo(S, n) ==
    IF n = 0 THEN {<<>>}
    ELSE LET shorter == SeqsUpTo(S, n - 1)
         IN shorter \cup {Append(q, x) : q \in {p \in shorter : Len(p) = n - 1}, x \in S}

\* Everything but the OtelObserver.
otelFrame == <<labels, called, group, subs, snapshot, touched, slotVars, rateVars, kind,
               components, loopVars, casVars, readVars, sumHist, everRaced>>

\* OtelObserver::register(counters), entered: the loop starts at the first
\* counter of the slice.
OtelObserver_register(counters) ==
    /\ otel.pc = "new"
    /\ otel' = [otel EXCEPT !.pc = "loop", !.counters = counters, !.i = 1]
    /\ UNCHANGED otelFrame

\* register_counter(counter): an unnamed counter is an error, a named one
\* becomes a u64 observable counter of the meter.
register_counter(counter) ==
    IF counter.name = ""
    THEN otel' = [otel EXCEPT !.pc = "done", !.result = "Err(MetricError)"]
    ELSE otel' = [otel EXCEPT
                     !.instruments = Append(@, [name |-> counter.name,
                                                instrument |-> "u64_observable_counter"]),
                     !.i = @ + 1]

\* register_gauge(counter): an unnamed counter is an error, a named one
\* becomes an f64 observable gauge of the meter.
\* (variant: a register_gauge without the check of the name)
register_gauge_unchecked(counter) ==
    otel' = [otel EXCEPT
                !.instruments = Append(@, [name |-> counter.name,
                                           instrument |-> "f64_observable_gauge"]),
                !.i = @ + 1]
register_gauge(counter) ==
    IF counter.name = ""
    THEN otel' = [otel EXCEPT !.pc = "done", !.result = "Err(MetricError)"]
    ELSE register_gauge_unchecked(counter)

\* One turn of the loop of register(): register_one(counter)?, which
\* registers the counter by its metric kind and leaves register() with the
\* error if there is one.
register_one ==
    /\ otel.pc = "loop"
    /\ otel.i <= Len(otel.counters)
    /\ LET counter == otel.counters[otel.i]
       IN CASE metric_kind(counter.kind) = "Counter" -> register_counter(counter)
            [] metric_kind(counter.kind) \in {"Gauge", "Histogram"} -> register_gauge(counter)
    /\ UNCHANGED otelFrame

\* The loop of register() is over: Ok(()).
OtelObserver_register_Ok ==
    /\ otel.pc = "loop"
    /\ otel.i > Len(otel.counters)
    /\ otel' = [otel EXCEPT !.pc = "done", !.result = "Ok"]
    /\ UNCHANGED otelFrame

\* ------------------------------------------------------------- harnesses
\* The observer may go on with the read in progress, or start one more.
MayRead == rd.pc = "walk" \/ reads < MaxReads
Observer(A) == MayRead /\ A /\ UNCHANGED loopVars

\* A worker that makes one more of the MaxAdds calls the workers share.
Worker(A) == nCalls < MaxAdds /\ nCalls' = nCalls + 1 /\ UNCHANGED <<calls, window>> /\ A
\* A worker that goes on with the call it is in.
Step(A) == A /\ UNCHANGED loopVars
\* A worker of the multi-thread tests: a loop of MaxCalls calls.
Looping(t, A) ==
    /\ calls[t] < MaxCalls
    /\ calls' = [calls EXCEPT ![t] = calls[t] + 1]
    /\ UNCHANGED <<nCalls, window>>
    /\ A

\* Workers and observer run concurrently.
Next ==
    \/ \E t \in Threads, v \in Amounts : Worker(add(t, v))
    \/ Observer(value)
    \/ Observer(value_and_reset)

Spec == InitRegistered(SumKinds) /\ [][Next]_vars

\* The multi-thread tests: every worker makes MaxCalls calls, the main thread
\* joins them all and then reads.
NextJoin ==
    \/ \E t \in Threads : Step(Register(t))
    \/ \E t \in Threads, v \in Amounts : Looping(t, add(t, v))
    \/ AllDone /\ Observer(value)
    \/ AllDone /\ Observer(value_and_reset)

SpecJoin == Init /\ [][NextJoin]_vars

\* Workers that add and subtract while the observer reads.
NextRW ==
    \/ \E t \in Threads, v \in Amounts : Worker(add(t, v))
    \/ \E t \in Threads, v \in Amounts : Worker(sub(t, v))
    \/ Observer(value)
    \/ Observer(value_and_reset)

SpecRW == InitRegistered({"Unsigned"}) /\ [][NextRW]_vars

\* Workers that observe while the observer reads a Minimum or a Maximum.
NextExt ==
    \/ \E t \in Threads, v \in ObsVals : Worker(observe(t, v))
    \/ \E t \in Threads : Step(cas_ok(t))
    \/ \E t \in Threads : Step(cas_err(t))
    \/ \E t \in Threads : Step(cas_spurious(t))
    \/ Observer(value)
    \/ Observer(value_and_reset)

SpecExt == InitRegistered(ExtKinds) /\ [][NextExt]_vars

\* Workers that observe while the observer resets, when every thread is
\* scheduled again and again and a compare_exchange_weak does not fail
\* spuriously forever.
NextCas ==
    \/ \E t \in Threads, v \in ObsVals : Worker(observe(t, v))
    \/ \E t \in Threads : Step(cas_ok(t))
    \/ \E t \in Threads : Step(cas_err(t))
    \/ \E t \in Threads : Step(cas_spurious(t))
    \/ Observer(value_and_reset)

SpecExtFair ==
    /\ InitRegistered(ExtKinds)
    /\ [][NextCas]_vars
    /\ \A t \in Threads : WF_vars(Step(cas_ok(t)) \/ Step(cas_err(t)))

\* Workers that add to and subtract from a Signed counter while the observer
\* reads.
NextSigned ==
    \/ \E t \in Threads, v \in SignedAmounts : Worker(Signed_add(t, v))
    \/ \E t \in Threads, v \in Amounts : Worker(Signed_sub(t, v))
    \/ Observer(value)
    \/ Observer(value_and_reset)

SpecSigned == InitRegistered(SignedKinds) /\ [][NextSigned]_vars

\* A worker that starts a call only when no read and no other call is running.
Quiet(A) == rd.pc = "idle" /\ AllIdle /\ Worker(A)

\* Threads that feed an Average with all its update operations, one call
\* after the other, and an observer that reads it between the calls.
NextAvg ==
    \/ \E t \in Threads, v \in ObsVals : Quiet(Average_observe_sum(t, v))
    \/ \E t \in Threads, v \in ObsVals, c \in Counts :
           Quiet(Average_observe_many_sum(t, v, c))
    \/ \E t \in Threads : Step(Average_fetch_add_count(t))
    \/ \E t \in Threads, v \in Amounts : Quiet(Average_add_sum(t, v))
    \/ \E t \in Threads, c \in Counts : Quiet(Average_add_count(t, c))
    \/ \E t \in Threads : Quiet(Average_incr(t))
    \/ AllIdle /\ Observer(Average_value)

SpecAvg == InitRegistered(AverageKinds) /\ [][NextAvg]_vars

\* Threads that observe, one call after the other, and an observer that
\* reads and resets the Average between the calls.
NextAvgReset ==
    \/ \E t \in Threads, v \in ObsVals : Quiet(Average_observe_sum(t, v))
    \/ \E t \in Threads : Step(Average_fetch_add_count(t))
    \/ AllIdle /\ Observer(Average_value)
    \/ AllIdle /\ Observer(Average_value_and_reset)

SpecAvgReset == InitRegistered(AverageKinds) /\ [][NextAvgReset]_vars

\* The multi-thread test of Average: every worker makes MaxCalls observe()
\* calls, the main thread joins them all and then reads.
NextAvgJoin ==
    \/ \E t \in Threads, v \in ObsVals : Looping(t, Average_observe_sum(t, v))
    \/ \E t \in Threads : Step(Average_fetch_add_count(t))
    \/ AllDone /\ AllIdle /\ Observer(Average_value)

SpecAvgJoin == InitRegistered(AverageKinds) /\ [][NextAvgJoin]_vars

\* A sampling thread that calls rate() once.
Once(s, A) ==
    /\ sampler[s].pc # "idle" \/ sampled[s].n = 0
    /\ A
    /\ UNCHANGED loopVars

\* Workers that add while several threads call rate() at the same time.
NextRates ==
    \/ \E t \in Threads, v \in Amounts : Worker(Rate_add(t, v))
    \/ \E s \in Samplers : Once(s, Rate_now(s))
    \/ \E s \in Samplers : Once(s, Rate_total_value(s))
    \/ \E s \in Samplers : Once(s, Rate_load_instant(s))
    \/ \E s \in Samplers : Once(s, Rate_last_value(s))
    \/ \E s \in Samplers : Once(s, Rate_store_instant(s))

SpecRates == InitRegistered(RateKinds) /\ [][NextRates]_vars

\* Workers that add while a single thread samples the rate MaxReads times,
\* with a record of which adds fell between which of its calls.
TheSampler == CHOOSE s \in OneSampler : TRUE
MaySample(s) == sampler[s].pc # "idle" \/ reads < MaxReads
Sample(s, A) == MaySample(s) /\ A /\ UNCHANGED loopVars
Adding(A) ==
    /\ nCalls < MaxAdds
    /\ nCalls' = nCalls + 1
    /\ window' = [window EXCEPT !.dirty = TRUE,
                                !.idleAdd = @ \/ sampler[TheSampler].pc = "idle"]
    /\ UNCHANGED calls
    /\ A
Starting(A) ==
    /\ MaySample(TheSampler)
    /\ window' = [window EXCEPT !.prevDirty = window.dirty, !.dirty = FALSE,
                                !.gap = window.idleAdd /\ sampled[TheSampler].n > 0,
                                !.idleAdd = FALSE,
                                !.base = IF sampled[TheSampler].n = 0 THEN added
                                         ELSE window.base]
    /\ UNCHANGED <<calls, nCalls>>
    /\ A

NextRate ==
    \/ \E t \in Threads, v \in Amounts : Adding(Rate_add(t, v))
    \/ Starting(Rate_now(TheSampler))
    \/ Sample(TheSampler, Rate_total_value(TheSampler))
    \/ Sample(TheSampler, Rate_load_instant(TheSampler))
    \/ Sample(TheSampler, Rate_last_value(TheSampler))
    \/ Sample(TheSampler, Rate_store_instant(TheSampler))

SpecRate == InitRegistered(RateKinds) /\ [][NextRate]_vars

\* A counter wrapped in a Resettable, written by workers one call after the
\* other and read through the wrapper between the calls.
NextResettable ==
    \/ \E t \in Threads, v \in Amounts : Quiet(add(t, v))
    \/ \E t \in Threads, v \in SignedAmounts : Quiet(Signed_add(t, v))
    \/ \E t \in Threads, v \in Amounts : Quiet(Signed_sub(t, v))
    \/ \E t \in Threads, v \in ObsVals : Quiet(observe(t, v))
    \/ \E t \in Threads : Step(cas_ok(t))
    \/ \E t \in Threads : Step(cas_spurious(t))
    \/ AllIdle /\ Observer(Resettable_value)

SpecResettable == InitRegistered(ResettableKinds) /\ [][NextResettable]_vars

\* A counter wrapped in a NonResettable: workers write it while the observer
\* reads it through the wrapper.
NextNonResettable ==
    \/ \E t \in Threads, v \in Amounts : Worker(add(t, v))
    \/ \E t \in Threads, v \in Amounts : Worker(Signed_add(t, v))
    \/ \E t \in Threads, v \in Amounts : Worker(Signed_sub(t, v))
    \/ Observer(NonResettable_value)
    \/ Observer(NonResettable_value_and_reset)

SpecNonResettable == InitRegistered(NonResettableKinds) /\ [][NextNonResettable]_vars

\* A Labeled made by Labeled::new, then any sequence of calls that change
\* its label list.
NextLabeled ==
    \/ \E key \in LabelKeys, v \in LabelValues : Labeled_with_label(key, v)
    \/ \E key \in LabelKeys, v \in LabelValues : Labeled_add_label(key, v)
    \/ \E key \in LabelKeys : Labeled_remove_label(key)

SpecLabeled == InitRegistered({"Unsigned"}) /\ [][NextLabeled]_vars

\* Threads that take their slot at their first operation and add 1 to the
\* sub-counters of a labeled group; then the group's snapshot is collected.
NextGroup ==
    \/ \E t \in Threads : Step(Register(t))
    \/ \E t \in Threads, f \in 1 .. MaxFields + 1 :
           snapshot = <<>> /\ Worker(Group_add(t, f, 1))
    \/ MetricsSnapshot_collect

SpecGroup == InitGroup /\ [][NextGroup]_vars

\* Threads that add to and subtract from an Unsigned, one call after the
\* other, and reads between the calls, in a build without overflow checks
\* (the sums wrap) and in a build with them (a sum that overflows panics).
NextWrap ==
    \/ \E t \in Threads, v \in Amounts : Quiet(add(t, v))
    \/ \E t \in Threads, v \in Amounts : Quiet(sub(t, v))
    \/ Observer(value)
    \/ Observer(value_and_reset)
    \/ Observer(Read_overflow("value"))
    \/ Observer(Read_overflow("value_and_reset"))

SpecWrap == InitRegistered({"Unsigned"}) /\ [][NextWrap]_vars

\* An observer whose value_and_reset() results are added up as they return.
Collector(A) ==
    /\ MayRead
    /\ A
    /\ window' = IF reads' = reads + 1 /\ last'.op = "value_and_reset"
                 THEN [window EXCEPT !.collected = @ + last'.val]
                 ELSE window
    /\ UNCHANGED <<calls, nCalls>>

\* Workers that add to and subtract from an Unsigned or a Signed while the
\* observer collects it with value_and_reset() and reads it with value(),
\* in a build without overflow checks and in a build with them.
NextCollect ==
    \/ \E t \in Threads, v \in Amounts : Worker(add(t, v))
    \/ \E t \in Threads, v \in Amounts : Worker(sub(t, v))
    \/ \E t \in Threads, v \in Amounts : Worker(Signed_add(t, v))
    \/ \E t \in Threads, v \in Amounts : Worker(Signed_sub(t, v))
    \/ Collector(value)
    \/ Collector(value_and_reset)
    \/ Collector(Read_overflow("value"))
    \/ Collector(Read_overflow("value_and_reset"))

SpecCollect == InitRegistered({"Unsigned", "Signed"}) /\ [][NextCollect]_vars

\* A step of worker t inside observe(v): when the call returns with it, v is
\* one more completed observation.
Watched(t, v, A) ==
    /\ A
    /\ window' = IF pc'[t] = "idle"
                 THEN [window EXCEPT
                         !.observed = @ \cup {v},
                         !.aba = @ \/ (pc[t] = "cas" /\ stale[t]
                                        /\ components' # components)]
                 ELSE window
\* An observer whose value_and_reset() results are kept as they return.
Reporter(A) ==
    /\ MayRead
    /\ A
    /\ window' = IF reads' = reads + 1 /\ last'.op = "value_and_reset"
                 THEN [window EXCEPT !.reported = @ \cup {last'.val}]
                 ELSE window
    /\ UNCHANGED <<calls, nCalls>>

\* The observer has begun its final read, the one that finds what is left.
Final == (rd.pc = "walk" /\ rd.op = "value") \/ last.op = "value"

\* Workers that observe on a Minimum or a Maximum while the observer
\* collects it with value_and_reset(); when all of them are done, the
\* observer reads what is left with value().
NextWindows ==
    \/ \E t \in Threads, v \in ObsVals :
          /\ ~Final
          /\ nCalls < MaxAdds
          /\ nCalls' = nCalls + 1
          /\ UNCHANGED calls
          /\ Watched(t, v, observe(t, v))
    \/ \E t \in Threads : Watched(t, arg[t], cas_ok(t)) /\ UNCHANGED <<calls, nCalls>>
    \/ \E t \in Threads : Watched(t, arg[t], cas_err(t)) /\ UNCHANGED <<calls, nCalls>>
    \/ \E t \in Threads : Step(cas_spurious(t))
    \/ ~Final /\ Reporter(value_and_reset)
    \/ AllIdle /\ ~(last.op = "value") /\ Reporter(value)

SpecWindows == InitRegistered(ExtKinds) /\ [][NextWindows]_vars

\* A worker that starts one more observe(v) on the Average.
Observing(v, A) ==
    /\ nCalls < MaxAdds
    /\ nCalls' = nCalls + 1
    /\ UNCHANGED calls
    /\ A
    /\ window' = [window EXCEPT !.seenSum = @ + v, !.seenCount = @ + 1]
\* An observer that totals the (sum, count) pairs its reset reads return.
Totalling(A) ==
    /\ MayRead
    /\ A
    /\ window' = IF reads' = reads + 1 /\ last'.op = "value_and_reset"
                 THEN [window EXCEPT !.sums = @ + last'.sum, !.counts = @ + last'.count]
                 ELSE window
    /\ UNCHANGED <<calls, nCalls>>

\* Workers that observe on an Average while the observer collects it with
\* value_and_reset(); when all of them are done, the observer reads what is
\* left.
NextAvgWindows ==
    \/ \E t \in Threads, v \in ObsVals :
          ~Final /\ Observing(v, Average_observe_sum(t, v))
    \/ \E t \in Threads : Step(Average_fetch_add_count(t))
    \/ ~Final /\ Totalling(Average_value_and_reset)
    \/ AllIdle /\ ~(last.op = "value") /\ Totalling(Average_value)

SpecAvgWindows == InitRegistered(AverageKinds) /\ [][NextAvgWindows]_vars

\* A worker whose add(v) is noted as falling after the beginning of the
\* observer's latest read.
Racer(v, A) ==
    /\ nCalls < MaxAdds
    /\ nCalls' = nCalls + 1
    /\ UNCHANGED calls
    /\ A
    /\ window' = [window EXCEPT !.during = Append(@, v)]
\* An observer that notes, when it begins a read, what has been added so far.
Bracketing(A) ==
    /\ MayRead
    /\ A
    /\ window' = IF rd.pc = "idle"
                 THEN [window EXCEPT !.startTotal = added, !.during = <<>>]
                 ELSE window
    /\ UNCHANGED <<calls, nCalls>>

\* Workers that add to a Monotone while the observer reads it with value().
NextBracket ==
    \/ \E t \in Threads, v \in Amounts : Racer(v, add(t, v))
    \/ Bracketing(value)

SpecBracket == InitRegistered({"Monotone"}) /\ [][NextBracket]_vars

\* A step of the single sampling thread; when its rate() call returns with
\* it, the totals and the delta of the call are noted.
Metered(A) ==
    /\ MaySample(TheSampler)
    /\ A
    /\ window' =
         LET r == sampler[TheSampler]
         IN IF sampler'[TheSampler].pc = "idle" /\ r.pc = "store"
            THEN [window EXCEPT
                    !.firstRead = IF sampled[TheSampler].n = 0 THEN r.current_value ELSE @,
                    !.prevRead = r.current_value,
                    !.deltas = @ + sampled'[TheSampler].rate.num,
                    !.diffs = IF sampled[TheSampler].n = 0 THEN 0
                              ELSE @ + (r.current_value - r.last_val)]
            ELSE window
    /\ UNCHANGED <<calls, nCalls>>

\* Workers that add while a single thread samples the rate MaxReads times,
\* with a record of the totals its calls read.
NextDeltas ==
    \/ \E t \in Threads, v \in Amounts : Worker(Rate_add(t, v))
    \/ Metered(Rate_now(TheSampler))
    \/ Metered(Rate_total_value(TheSampler))
    \/ Metered(Rate_load_instant(TheSampler))
    \/ Metered(Rate_last_value(TheSampler))
    \/ Metered(Rate_store_instant(TheSampler))

SpecDeltas == InitRegistered(RateKinds) /\ [][NextDeltas]_vars

\* A step of the single sampling thread, which calls rate() once and then
\* MaxReads times more; noted are what had been added when the call began
\* and, when a call returns, whether it had zero elapsed time.
Resampling(A) ==
    /\ sampler[TheSampler].pc # "idle" \/ reads < MaxReads + 1
    /\ A
    /\ window' =
         LET r == sampler[TheSampler]
         IN CASE r.pc = "idle" -> [window EXCEPT !.startTotal = added]
              [] r.pc = "store" /\ sampled[TheSampler].n = 0 ->
                   [window EXCEPT !.firstRead = r.current_value, !.startTotal = 0]
              [] r.pc = "store" /\ sampled[TheSampler].n > 0
                                /\ ~sampled'[TheSampler].timed ->
                   [window EXCEPT !.zeroed = TRUE, !.lostBefore = window.startTotal,
                                  !.startTotal = 0]
              [] r.pc = "store" -> [window EXCEPT !.startTotal = 0]
              [] OTHER -> window
    /\ UNCHANGED <<calls, nCalls>>

\* Workers that add, once the first sample is taken, while a single thread
\* samples the rate again and again, also at the instant of its previous
\* sample.
NextResample ==
    \/ \E t \in Threads, v \in Amounts :
          sampled[TheSampler].n > 0 /\ Worker(Rate_add(t, v))
    \/ Resampling(Rate_now(TheSampler))
    \/ Resampling(Rate_total_value(TheSampler))
    \/ Resampling(Rate_load_instant(TheSampler))
    \/ Resampling(Rate_last_value(TheSampler))
    \/ Resampling(Rate_store_instant(TheSampler))

SpecResample == InitRegistered(RateKinds) /\ [][NextResample]_vars

\* A step of the single sampling thread inside the read op of the Rate, or
\* the first step of one more such read.
Calling(op, A) ==
    /\ MaySample(TheSampler)
    /\ sampler[TheSampler].pc # "idle" => window.op = op
    /\ A
    /\ window' = [window EXCEPT !.op = op]
    /\ UNCHANGED <<calls, nCalls>>

\* Workers that add while a single thread reads the Rate with rate(),
\* value() and value_and_reset().
NextRateReads ==
    \/ \E t \in Threads, v \in Amounts : Worker(Rate_add(t, v))
    \/ \E op \in RateOps : Calling(op, Rate_Read(op, TheSampler))

SpecRateReads == InitRegistered(RateKinds) /\ [][NextRateReads]_vars

\* A worker that calls set_local_value(v).
Setting(t, v, A) ==
    /\ nCalls < MaxAdds
    /\ nCalls' = nCalls + 1
    /\ UNCHANGED calls
    /\ A
    /\ window' = [window EXCEPT !.op = "set_local_value", !.setBy = t, !.set = v,
                                !.before = components]
\* A worker that makes, or goes on with, another write.
Writing(n, A) ==
    /\ nCalls + n <= MaxAdds
    /\ nCalls' = nCalls + n
    /\ UNCHANGED calls
    /\ A
    /\ window' = [window EXCEPT !.op = "write", !.setBy = 0, !.set = 0, !.before = <<>>]
\* A worker that calls local_value().
Asking(A) ==
    /\ reads < MaxReads
    /\ A
    /\ window' = [window EXCEPT !.op = "local_value"]
    /\ UNCHANGED <<calls, nCalls>>

\* No read and no call of a worker is running.
Calm == rd.pc = "idle" /\ AllIdle

\* Workers that write an Unsigned, a Signed or a Minimum, also with
\* set_local_value, one call after the other; after a set_local_value its
\* caller reads its cell and the observer reads the counter with value().
NextSet ==
    \/ \E t \in Threads, v \in Amounts : Calm /\ Writing(1, add(t, v))
    \/ \E t \in Threads, v \in SignedAmounts : Calm /\ Writing(1, Signed_add(t, v))
    \/ \E t \in Threads, v \in ObsVals : Calm /\ Writing(1, observe(t, v))
    \/ \E t \in Threads : Writing(0, cas_ok(t))
    \/ \E t \in Threads : Step(cas_spurious(t))
    \/ \E t \in Threads, v \in SetVals(kind) :
          Calm /\ Setting(t, v, set_local_value(t, v))
    \/ \E t \in Threads : Calm /\ t = window.setBy /\ Asking(local_value(t))
    \/ AllIdle /\ window.setBy # 0 /\ Observer(value)

SpecSet == InitRegistered(SetKinds) /\ [][NextSet]_vars

\* The values passed to observe(), with the sentinel of Minimum among them
\* (that of Maximum, 0, is one of ObsVals).
SentinelVals == ObsVals \cup {USIZE_MAX}

\* A worker that starts one more observe(v), which is noted.
Noted(v, A) ==
    /\ nCalls < MaxAdds
    /\ nCalls' = nCalls + 1
    /\ UNCHANGED calls
    /\ A
    /\ window' = [window EXCEPT !.observed = @ \cup {v}, !.set = v]

\* Workers that observe values, the sentinel among them, on a Minimum or a
\* Maximum, one call after the other, and the observer reads it between
\* the calls.
NextSentinel ==
    \/ \E t \in Threads, v \in SentinelVals :
          rd.pc = "idle" /\ AllIdle /\ Noted(v, observe(t, v))
    \/ \E t \in Threads : Step(cas_ok(t))
    \/ \E t \in Threads : Step(cas_spurious(t))
    \/ AllIdle /\ Observer(value)
    \/ AllIdle /\ Observer(value_and_reset)

SpecSentinel == InitRegistered(ExtKinds) /\ [][NextSentinel]_vars

\* The counter types whose metric kind the exporters ask for.
KindKinds == {"Unsigned", "Signed", "Monotone", "Rate"}

\* The counter is built and handed over as it is or inside the adapter w.
Wrap(w) ==
    /\ window.via = "unset"
    /\ window' = [window EXCEPT !.via = w]
    /\ UNCHANGED <<calls, nCalls>>
    /\ UNCHANGED <<wrapVars, slotVars, rateVars, kind, components, casVars, readVars, sumHist,
                   everRaced>>

\* An exporter asks the counter for its metric kind; every answer is kept.
AskKind ==
    /\ window.via # "unset"
    /\ window' = [window EXCEPT !.kinds = @ \cup {dyn_metric_kind(window.via, kind)}]
    /\ UNCHANGED <<calls, nCalls>>
    /\ UNCHANGED <<wrapVars, slotVars, rateVars, kind, components, casVars, readVars, sumHist,
                   everRaced>>

\* The counter's reads through the adapter it is in.
Wrapped_value ==
    CASE window.via = "Resettable" -> Resettable_value
      [] window.via = "NonResettable" -> NonResettable_value
      [] OTHER -> value
Wrapped_value_and_reset ==
    CASE window.via = "NonResettable" -> NonResettable_value_and_reset
      [] OTHER -> value_and_reset

\* A counter that is built, wrapped or not, written by workers one call
\* after the other, read and reset between the calls (a Rate: written, then
\* read with value()), and asked for its metric kind at any moment of its life.
NextKind ==
    \/ \E w \in Wrappers : Wrap(w)
    \/ AskKind
    \/ \E t \in Threads, v \in Amounts : window.via # "unset" /\ Quiet(add(t, v))
    \/ \E t \in Threads, v \in Amounts : window.via # "unset" /\ Quiet(Signed_add(t, v))
    \/ \E t \in Threads, v \in Amounts :
          window.via # "unset" /\ sampled[TheSampler].n = 0 /\ sampler[TheSampler].pc = "idle"
                               /\ Worker(Rate_add(t, v))
    \/ window.via # "unset" /\ kind # "Rate" /\ Observer(Wrapped_value)
    \/ window.via # "unset" /\ kind # "Rate" /\ Observer(Wrapped_value_and_reset)
    \/ window.via # "unset" /\ MaySample(TheSampler) /\ Step(Rate_value(TheSampler))

SpecKind == InitRegistered(KindKinds) /\ [][NextKind]_vars

\* An OtelObserver on which register() is called with a slice of static
\* counters, named or not.
NextOtel ==
    \/ \E counters \in SeqsUpTo(StaticCounters, MaxCounters) : OtelObserver_register(counters)
    \/ register_one
    \/ OtelObserver_register_Ok

SpecOtel == InitRegistered({"Unsigned"}) /\ [][NextOtel]_vars

\* ----------------------------------------------------------------- claims
NumThreads == NUM_COMPONENTS + 1
\* Two threads are bound to the same shard.
Shared ==
    \E t1, t2 \in Threads :
        /\ t1 # t2
        /\ THREAD_SLOT_INDEX[t1] # NoSlot
        /\ THREAD_SLOT_INDEX[t1] = THREAD_SLOT_INDEX[t2]
\* A reset read is between two of its swaps.
Resetting == rd.pc = "walk" /\ rd.op = "value_and_reset"

\* C1: when each of the T threads has made its K calls add(1) and has been
\* joined, value() on the Unsigned or Monotone counter returns exactly T*K,
\* whatever the interleaving was (T*K stays below 2^w, nothing was reset).
C1_ExactCount ==
    (/\ AllDone
     /\ added = NumThreads * MaxCalls
     /\ NumThreads * MaxCalls < Modulus
     /\ last.op = "value"
     /\ (kind = "Monotone" \/ nResets = 0))
    => last.val = NumThreads * MaxCalls

C1_Witness ==
    /\ AllDone
    /\ added = NumThreads * MaxCalls
    /\ last.op = "value"
    /\ last.val = NumThreads * MaxCalls

\* C2: with more threads than shards, so that threads share a shard, no add
\* is lost: once all adds are done value() returns the sum of all the amounts
\* added (which stays below 2^w; nothing was reset).
C2_SharedShardSum ==
    (/\ AllDone
     /\ Shared
     /\ added < Modulus
     /\ last.op = "value"
     /\ (kind = "Monotone" \/ nResets = 0))
    => last.val = added

C2_Witness ==
    /\ AllDone
    /\ Shared
    /\ added > NumThreads * MaxCalls
    /\ THREAD_SLOT_INDEX[NumThreads] = THREAD_SLOT_INDEX[1]
    /\ components[THREAD_SLOT_INDEX[1]] > MaxCalls * MaxVal
    /\ last.op = "value"
    /\ last.val = added

\* C3: on a Monotone counter, whatever adds race with the observer's value()
\* and value_and_reset() calls, a read never returns less than the read
\* before it (the total stays below 2^w).
C3_NonDecreasing ==
    (kind = "Monotone" /\ reads >= 2 /\ added < Modulus) => last.prevVal <= last.val

C3_Witness ==
    /\ kind = "Monotone"
    /\ reads >= 2
    /\ nResets >= 1
    /\ ~last.clean
    /\ last.prevVal < last.val
    /\ last.val < added

\* C4: no step of a read of a Monotone counter, value_and_reset() included,
\* changes a shard, and a read that no add overlaps returns the sum of all
\* adds made so far, however many value_and_reset() calls came before it.
C4_MonotoneNeverCleared ==
    [][kind = "Monotone" =>
         /\ (added' = added => components' = components)
         /\ (reads' = reads + 1 /\ last'.clean /\ added < Modulus) => last'.val = added
      ]_vars

C4_Witness ==
    /\ kind = "Monotone"
    /\ reads = 2
    /\ nResets = 1
    /\ last.op = "value"
    /\ last.clean
    /\ last.prevVal = added
    /\ last.val = added
    /\ added > 0
    /\ SumCells = added

\* C5: on an Unsigned counter whose reads no write ever overlapped, a read
\* returns the sum of the amounts added since the last value_and_reset()
\* returned: value_and_reset() returns that sum, a value() right after it
\* returns 0, and later adds count from 0.
C5_ResetReturnsWindow ==
    [][(kind = "Unsigned" /\ reads' = reads + 1 /\ ~everRaced' /\ added < Modulus)
         => last'.val = sinceReset
      ]_vars

C5_Witness ==
    /\ kind = "Unsigned"
    /\ ~everRaced
    /\ reads = 2
    /\ nResets = 1
    /\ last.op = "value"
    /\ last.val = 0
    /\ last.prevVal = added
    /\ added > 0

\* C6 (as stated): when a reset read comes to a cell that holds a write which
\* raced with it, the write can be double-counted: a step of the read can
\* take the write into this read's value and leave it in the cell for the
\* next read's value.
C6_DoubleCounted ==
    (/\ kind = "Unsigned"
     /\ Resetting
     /\ ~rd.clean
     /\ nCalls = 1
     /\ components[rd.i] = added)
    => ENABLED (/\ Observer(value_and_reset)
                /\ collected' + SumFrom(components', 0, NUM_COMPONENTS - 1)
                     + (IF rd'.pc = "walk" THEN rd'.acc ELSE 0) > added)

\* C6 (amended): an add that races with a reset read on an Unsigned counter
\* lands in that read, or is left out of it and is then counted by a later
\* read, never both: the values returned by the reset reads, the partial sum
\* of a reset read in progress and what the cells hold always add up to
\* exactly the amounts added.
C6_CountedOnce ==
    (kind = "Unsigned" /\ added < Modulus)
    => collected + (IF Resetting THEN rd.acc ELSE 0) + SumCells = added

C6_Witness ==
    /\ kind = "Unsigned"
    /\ everRaced
    /\ nCalls = 1
    /\ reads = 2
    /\ nResets = 2
    /\ last.clean
    /\ last.prevVal = 0
    /\ last.val = added

\* C7: no read blocks a writer and no writer blocks a read: in every state,
\* also with the observer stopped between two cells of a value() or a
\* value_and_reset(), every thread's add() and sub() can run, each as one
\* atomic step, and the observer can take the next step of its read.
C7_NonBlocking ==
    /\ \A t \in Threads, v \in Amounts :
           /\ ENABLED Step(add(t, v))
           /\ ENABLED Step(sub(t, v))
    /\ rd.pc = "walk" => ENABLED Step(Read(rd.op))

C7_Witness ==
    /\ rd.pc = "walk"
    /\ ~rd.clean
    /\ added > 0
    /\ subbed > 0

\* C8: when the threads' concurrent observe() calls, threads sharing a shard
\* included, have all completed (and nothing was reset), the extremum of the
\* cells, which is what value() returns, is the minimum (Minimum) or maximum
\* (Maximum) of all the observed values.
C8_ExtremumKept ==
    (AllIdle /\ nResets = 0 /\ ~Resetting)
    => Result(kind, FoldCells(kind, NUM_COMPONENTS)) = AsU64(best)

C8_Witness ==
    /\ AllIdle
    /\ nResets = 0
    /\ ~Resetting
    /\ retried
    /\ nCalls >= 2
    /\ best # new(kind)
    /\ components[0] = best

\* C9: observe() is lock-free: a worker's compare_exchange_weak fails with
\* another value only when another thread changed its cell after the worker
\* loaded it, and under fair scheduling with no endless spurious failures
\* every observe() call returns.
C9_LockFree ==
    /\ [](\A t \in Threads :
            (pc[t] = "cas" /\ components[THREAD_SLOT_INDEX[t]] # current[t])
            => stale[t])
    /\ \A t \in Threads : (pc[t] = "cas") ~> (pc[t] = "idle")

C9_Witness ==
    \E t \in Threads :
        /\ pc[t] = "cas"
        /\ stale[t]
        /\ components[THREAD_SLOT_INDEX[t]] # current[t]
        /\ retried

\* C10: a value() of a Minimum that was never reset, called when no
\* observe() is running, returns the smallest value observed so far, and
\* u64::MAX when nothing was observed yet.
C10_MinimumOfObserved ==
    [][(/\ kind = "Minimum"
        /\ reads' = reads + 1
        /\ nResets' = 0
        /\ last'.clean
        /\ AllIdle)
         => last'.val = AsU64(best)
      ]_vars

C10_Witness ==
    /\ kind = "Minimum"
    /\ reads = 2
    /\ nResets = 0
    /\ last.clean
    /\ AllIdle
    /\ last.prevVal = USIZE_MAX
    /\ last.val = best
    /\ best < MaxVal
    /\ nCalls >= 2

\* C11: a value() of a Maximum that was never reset, called when no
\* observe() is running, returns the largest value observed so far, in
\* whatever order and on whatever shards the values came, and 0 when nothing
\* was observed yet.
C11_MaximumOfObserved ==
    [][(/\ kind = "Maximum"
        /\ reads' = reads + 1
        /\ last'.op = "value"
        /\ nResets' = 0
        /\ last'.clean
        /\ AllIdle)
         => /\ last'.val = AsU64(best)
            /\ (nCalls = 0 => last'.val = 0)
      ]_vars

C11_Witness ==
    /\ kind = "Maximum"
    /\ reads = 2
    /\ nResets = 0
    /\ last.op = "value"
    /\ last.clean
    /\ AllIdle
    /\ last.prevVal = 0
    /\ last.val = best
    /\ \E i \in Shards : components[i] > 0 /\ components[i] < best

\* C12: on a Minimum or Maximum whose reads no observe() call ever
\* overlapped, a read returns the extremum of the values observed since the
\* last value_and_reset() returned: value_and_reset() returns that extremum
\* and leaves the sentinel in every cell, a value() right after it reports
\* no data (u64::MAX resp. 0), and the first value observed afterwards is
\* the new extremum, also when the window before had a better one.
C12_ResetToSentinel ==
    [][(kind \in ExtKinds /\ reads' = reads + 1 /\ ~everRaced')
         => /\ last'.val = Result(kind, sinceReset)
            /\ last'.op = "value_and_reset"
                 => /\ \A i \in Shards : components'[i] = new(kind)
                    /\ sinceReset' = new(kind)
      ]_vars

C12_Witness ==
    /\ kind \in ExtKinds
    /\ ~everRaced
    /\ reads = 2
    /\ nResets >= 1
    /\ last.prevVal # AsU64(new(kind))
    /\ last.val # AsU64(new(kind))
    /\ Better(kind, last.prevVal, last.val)
    /\ \E i \in Shards : components[i] = new(kind)

\* C13: on a Signed counter a read that no add() or sub() overlaps, made
\* before any reset, returns the sum of the amounts added minus the sum of
\* the amounts subtracted, which may be negative; and when no write ever
\* overlapped a read, value_and_reset() returns the signed sum of the window
\* and leaves 0 in every cell, so that a value() right after it returns 0.
C13_SignedSum ==
    [][(/\ kind = "Signed"
        /\ reads' = reads + 1
        /\ added - subbed >= -Half
        /\ added - subbed < Half)
         => /\ (nResets = 0 /\ last'.clean) => last'.val = added - subbed
            /\ ~everRaced'
                 => /\ last'.val = sinceReset
                    /\ last'.op = "value_and_reset"
                         => \A i \in Shards : components'[i] = 0
      ]_vars

C13_Witness ==
    /\ kind = "Signed"
    /\ ~everRaced
    /\ reads = 2
    /\ nResets = 1
    /\ last.op = "value"
    /\ last.val = 0
    /\ last.prevVal < 0
    /\ last.prevVal = added - subbed
    /\ added > 0
    /\ subbed > 0

\* C14: on an Average that was never reset, read between the calls of any
\* sequence of observe, observe_many, add_sum, add_count and incr calls:
\* sum() is the total of the sum contributions, count() the total of the
\* count contributions (an observe counts 1), average() is None when the
\* count is 0 and otherwise Some(a) with a the floor of sum / count, and
\* value() is a, or 0 for None.
C14_AverageOfTotals ==
    [][(/\ kind = "Average"
        /\ reads' = reads + 1
        /\ last'.op = "value"
        /\ nResets = 0
        /\ ~everRaced'
        /\ sinceReset.sum < Modulus
        /\ sinceReset.count < Modulus)
         => /\ last'.sum = sinceReset.sum
            /\ last'.count = sinceReset.count
            /\ last'.average.some = (sinceReset.count > 0)
            /\ last'.average.some
                 => /\ last'.average.v * sinceReset.count <= sinceReset.sum
                    /\ sinceReset.sum < (last'.average.v + 1) * sinceReset.count
                    /\ last'.val = last'.average.v
            /\ ~last'.average.some => last'.val = 0
      ]_vars

C14_Witness ==
    /\ kind = "Average"
    /\ nResets = 0
    /\ reads = 2
    /\ last.op = "value"
    /\ last.prevVal = 0
    /\ last.count > 1
    /\ last.sum > last.count
    /\ last.average.some
    /\ last.val * last.count < last.sum
    /\ \E i, j \in Shards : components[i].sum > 0 /\ components[j].count > components[i].count

\* C15: on an Average whose reads no call overlaps, sum_count_and_reset()
\* returns the totals of the observations made since the last reset and
\* leaves (0, 0) in every cell; value_and_reset() is the floor of the ratio
\* of those totals, 0 when the count is 0; a read right after it finds no
\* data (None), and a read after later observations averages those alone.
C15_AverageWindow ==
    [][(/\ kind = "Average"
        /\ reads' = reads + 1
        /\ nResets' >= 1
        /\ ~everRaced'
        /\ sinceReset.sum < Modulus
        /\ sinceReset.count < Modulus)
         => /\ last'.sum = sinceReset.sum
            /\ last'.count = sinceReset.count
            /\ last'.val = IF sinceReset.count = 0 THEN 0
                           ELSE sinceReset.sum \div sinceReset.count
            /\ (sinceReset.count = 0) => last'.average = None
            /\ last'.op = "value_and_reset"
                 => /\ \A i \in Shards : components'[i] = SumCount_new
                    /\ sinceReset' = SumCount_new
      ]_vars

C15_Witness ==
    /\ kind = "Average"
    /\ ~everRaced
    /\ reads = 2
    /\ nResets = 1
    /\ last.op = "value"
    /\ last.prevVal = 1
    /\ last.val = 2
    /\ last.sum = 2
    /\ last.count = 1

\* C16: when every thread has made its observe() calls, threads that share
\* a shard included, and all the calls have returned, count() is the number
\* of observations made and sum() the total of the observed values,
\* whatever the interleaving of the threads' fetch_adds was.
C16_ConcurrentObserve ==
    (AllDone /\ AllIdle /\ last.op = "value" /\ sinceReset.sum < Modulus)
    => /\ last.count = NumThreads * MaxCalls
       /\ last.sum = sinceReset.sum

C16_Witness ==
    /\ AllDone
    /\ AllIdle
    /\ last.op = "value"
    /\ last.count = NumThreads * MaxCalls
    /\ last.sum > last.count
    /\ components[THREAD_SLOT_INDEX[1]].count = 2 * MaxCalls

\* The rate() call of sampling thread s returns in this step.
Returns(s) == sampler[s].pc = "store" /\ sampler'[s].pc = "idle"

\* C17: the first rate() call returns 0.0 whatever the total is, and leaves
\* as baseline the total it read, which holds every amount added before the
\* call began, and the instant it read; so no later rate() call of the
\* thread reports an amount that was added before the first call began.
C17_FirstCallBaseline ==
    [][(kind = "Rate" /\ Returns(TheSampler) /\ added < Modulus)
         => LET r == sampler[TheSampler]
            IN /\ sampled[TheSampler].n = 0
                    => /\ sampled'[TheSampler].rate = ZeroRate
                       /\ last_value' = r.current_value
                       /\ last_instant' = Some(r.now)
                       /\ window.base <= r.current_value
               /\ sampled[TheSampler].n > 0
                    => sampled'[TheSampler].rate.num <= added - window.base
      ]_vars

C17_Witness ==
    /\ kind = "Rate"
    /\ sampled[TheSampler].n = 2
    /\ window.base > 0
    /\ sampled[TheSampler].timed
    /\ sampled[TheSampler].rate.num > 0
    /\ sampled[TheSampler].rate.num = added - window.base

\* C18: a rate() call after the first, of a single sampling thread, returns
\* 0.0 when no add() was made since the call before it began, and a
\* positive value when an add() was made between the return of the call
\* before it and its own beginning and its elapsed time is positive.
C18_RateSign ==
    [][(/\ kind = "Rate"
        /\ Returns(TheSampler)
        /\ sampled[TheSampler].n > 0
        /\ added < Modulus)
         => /\ (~window.prevDirty /\ ~window.dirty)
                 => sampled'[TheSampler].rate.num = 0
            /\ (window.gap /\ sampled'[TheSampler].timed)
                 => sampled'[TheSampler].rate.num > 0
      ]_vars

C18_Witness ==
    /\ kind = "Rate"
    /\ sampled[TheSampler].n = 2
    /\ sampler[TheSampler].pc = "idle"
    /\ window.gap
    /\ ~window.dirty
    /\ sampled[TheSampler].timed
    /\ sampled[TheSampler].rate.num > 0

\* C19: every rate() call leaves the total and the instant it read as the
\* new baseline, so that a call made at the instant of the call before it
\* returns 0.0.
C19_BaselineReplaced ==
    [][(kind = "Rate" /\ Returns(TheSampler))
         => LET r == sampler[TheSampler]
            IN /\ last_value' = r.current_value
               /\ last_instant' = Some(r.now)
               /\ (sampled[TheSampler].n > 0 /\ r.last_time = Some(r.now))
                    => sampled'[TheSampler].rate = ZeroRate
      ]_vars

C19_Witness ==
    /\ kind = "Rate"
    /\ sampled[TheSampler].n = 2
    /\ sampler[TheSampler].pc = "idle"
    /\ ~sampled[TheSampler].timed
    /\ ~window.prevDirty
    /\ ~window.dirty
    /\ added > 0
    /\ last_value = added
    /\ last_instant = Some(clock)
    /\ sampled[TheSampler].rate = ZeroRate

\* C20: whatever the interleaving of the add() calls and of the rate() calls
\* of several threads, a rate() call with a positive elapsed time returns
\* the larger of 0 and its total minus the last value it swapped out,
\* divided by the elapsed time, and every call returns a value >= 0, also
\* when its total is older than the last value it found.
C20_NeverNegative ==
    [][\A s \in Samplers :
          (kind = "Rate" /\ Returns(s))
          => LET r == sampler[s]
             IN /\ sampled'[s].rate.num >= 0
                /\ sampled'[s].rate.den > 0
                /\ (r.last_time.some /\ r.now > r.last_time.v)
                     => /\ sampled'[s].rate.num = Max2(0, r.current_value - r.last_val)
                        /\ sampled'[s].rate.den = r.now - r.last_time.v
      ]_vars

C20_Witness ==
    \E s \in Samplers :
        /\ sampled[s].n = 1
        /\ sampled[s].timed
        /\ sampled[s].clamped
        /\ sampled[s].rate.num = 0
        /\ last_value < added

\* C21: with no writer running during a read, value() of a Resettable that
\* wraps an Unsigned, a Signed or a Maximum returns the aggregate of what was
\* written since the value() before it and leaves every cell in its initial
\* state, so that a value() with nothing written in between returns 0.
C21_ResettableValue ==
    [][(kind \in {"Unsigned", "Signed", "Maximum"} /\ reads' = reads + 1)
         => /\ last'.val = Result(kind, sinceReset)
            /\ \A i \in Shards : components'[i] = new(kind)
            /\ (reads > 0 /\ sinceReset = new(kind)) => last'.val = 0
      ]_vars

C21_Witness ==
    /\ kind = "Maximum"
    /\ reads = 2
    /\ last.val > 0
    /\ last.prevVal > last.val
    /\ \A i \in Shards : components[i] = new(kind)

\* C22: value() of a Resettable that wraps a Monotone changes no cell, so
\* that every thread's local value is kept, and returns the total of all
\* adds made so far: the same total as the value() before it when nothing
\* was added in between.
C22_ResettableMonotone ==
    [][(kind = "Monotone" /\ added' = added /\ added < Modulus)
         => /\ components' = components
            /\ reads' = reads + 1
                 => /\ last'.val = added
                    /\ (reads > 0 /\ last.val = added) => last'.val = last.val
      ]_vars

C22_Witness ==
    /\ kind = "Monotone"
    /\ reads = 2
    /\ added > 0
    /\ last.prevVal = added
    /\ last.val = added
    /\ \E t \in Threads : components[THREAD_SLOT_INDEX[t]] = added

\* C23: no step of a value_and_reset() (or value()) of a NonResettable that
\* wraps an Unsigned or a Signed changes a cell, and a call that no write
\* overlaps returns the aggregate of everything written so far, whatever
\* calls came before it: later adds accumulate on top of what an earlier
\* value_and_reset() returned.
C23_NonResettableKeeps ==
    [][(kind \in NonResettableKinds /\ added' = added /\ subbed' = subbed)
         => /\ components' = components
            /\ (reads' = reads + 1 /\ last'.clean)
                 => last'.val = Result(kind, added - subbed)
      ]_vars

C23_Witness ==
    /\ kind = "Signed"
    /\ reads = 2
    /\ last.clean
    /\ last.prevVal > 0
    /\ last.val < 0
    /\ last.val = added - subbed
    /\ SumCells = last.val

\* C24: after any sequence of with_label, add_label and remove_label calls
\* on a Labeled made by Labeled::new no two labels have the same key; a call
\* that adds a key the list holds puts the new value where the key is and
\* leaves the other labels as they are, a call that adds a new key appends
\* the label to the list, and a removal keeps the other labels in order.
C24_NoDuplicateKeys ==
    /\ \A i, j \in 1 .. Len(labels) : labels[i][1] = labels[j][1] => i = j
    /\ called.op \in {"with_label", "add_label"}
         => IF \E i \in 1 .. Len(called.before) : called.before[i][1] = called.key
            THEN /\ Len(labels) = Len(called.before)
                 /\ \A i \in 1 .. Len(labels) :
                        labels[i] = IF called.before[i][1] = called.key
                                    THEN <<called.key, called.value>>
                                    ELSE called.before[i]
            ELSE labels = Append(called.before, <<called.key, called.value>>)
    /\ called.op = "remove_label"
         => labels = SelectSeq(called.before, LAMBDA x : x[1] # called.key)

C24_Witness ==
    /\ called.op = "add_label"
    /\ Len(labels) = 3
    /\ Len(called.before) = 3
    /\ labels[1][1] = called.key
    /\ labels[1][2] = called.value
    /\ called.before[1][2] # called.value
    /\ labels[2] = called.before[2]
    /\ labels[3] = called.before[3]

C26_SlotAssignedOnce ==
    /\ [](\A t \in Threads :
            /\ THREAD_SLOT_INDEX[t] = NoSlot \/ THREAD_SLOT_INDEX[t] \in Shards
            /\ \A p \in touched[t] : p[2] = THREAD_SLOT_INDEX[t])
    /\ [][/\ (\A t \in Threads :
                IF THREAD_SLOT_INDEX[t] # NoSlot
                THEN THREAD_SLOT_INDEX'[t] = THREAD_SLOT_INDEX[t]
                ELSE (THREAD_SLOT_INDEX'[t] # NoSlot
                      => (/\ THREAD_SLOT_INDEX'[t] = NEXT_SLOT_ID % NUM_COMPONENTS
                          /\ NEXT_SLOT_ID' = NEXT_SLOT_ID + 1)))
           /\ (NEXT_SLOT_ID' # NEXT_SLOT_ID)
                => (\E u \in Threads :
                       THREAD_SLOT_INDEX[u] = NoSlot /\ THREAD_SLOT_INDEX'[u] # NoSlot)
         ]_vars

C26_Witness ==
    /\ NEXT_SLOT_ID > NUM_COMPONENTS
    /\ \E t1, t2 \in Threads :
          /\ t1 # t2
          /\ THREAD_SLOT_INDEX[t1] = THREAD_SLOT_INDEX[t2]
          /\ \E p, q \in touched[t1] : p[1] # q[1] /\ p[2] = q[2]
          /\ touched[t2] = {}

\* C27: a sub(v) on a cell of an Unsigned that holds less than v leaves the
\* difference modulo 2^w in the cell and changes no other cell, and every
\* value() and value_and_reset() made afterwards returns: before any reset,
\* it returns the sum of the adds minus the sum of the subs modulo 2^w,
\* also when the adds went to other cells than the subs.
C27_WrapNeverFails ==
    [][kind = "Unsigned"
         => /\ subbed' # subbed
                 => \E i \in Shards :
                       /\ components'[i] = (components[i] - (subbed' - subbed)) % Modulus
                       /\ \A j \in Shards \ {i} : components'[j] = components[j]
            /\ reads' = reads + 1
                 => /\ last'.op # "panic"
                    /\ nResets = 0 => last'.val = (added - subbed) % Modulus
      ]_vars

\* C28: on an Unsigned or a Signed counter, whatever adds and subs race with
\* the value_and_reset() calls, the values those calls returned and the
\* value a later value() returns that no write overlaps add up, modulo 2^w,
\* to the sum of all amounts written: every amount is in exactly one of them.
C28_EveryAmountOnce ==
    [][(/\ kind \in {"Unsigned", "Signed"}
        /\ reads' = reads + 1
        /\ last'.op = "value"
        /\ last'.clean
        /\ AllIdle)
         => (window'.collected + last'.val) % Modulus = (added - subbed) % Modulus
      ]_vars

\* C29: on a Minimum (a Maximum), whatever observe() calls race with the
\* value_and_reset() calls, every observe(v) that has returned is covered by
\* a window: one of the values the value_and_reset() calls returned, or the
\* value a later value() returns that no observe() overlaps, is <= v (>= v).
\* This includes the runs in which a compare-exchange succeeds on a cell
\* that was reset and came back to the value loaded before.
C29_NoObservationLost ==
    [][(/\ kind \in ExtKinds
        /\ reads' = reads + 1
        /\ last'.op = "value"
        /\ last'.clean
        /\ AllIdle)
         => \A v \in window.observed :
               \E r \in window.reported \cup {last'.val} :
                  IF kind = "Minimum" THEN r <= v ELSE r >= v
      ]_vars

C29_Witness ==
    /\ kind \in ExtKinds
    /\ AllIdle
    /\ last.op = "value"
    /\ last.clean
    /\ window.aba
    /\ window.reported # {}
    /\ \E v \in window.observed :
          /\ \A r \in window.reported : IF kind = "Minimum" THEN r > v ELSE r < v
          /\ IF kind = "Minimum" THEN last.val <= v ELSE last.val >= v
    /\ \E v \in window.observed :
          \E r \in window.reported : IF kind = "Minimum" THEN r <= v ELSE r >= v

\* C30: on an Average, whatever observe() calls race with the reset reads
\* (an observation may have its sum in one window and its count in the
\* next), the sums the reset reads returned and the sum that a later read
\* finds, which no observe() overlaps, total the sum of all observed values,
\* and the counts total the number of observations.
C30_TotalsKept ==
    [][(/\ kind = "Average"
        /\ reads' = reads + 1
        /\ last'.op = "value"
        /\ last'.clean
        /\ AllIdle)
         => /\ window.sums + last'.sum = window.seenSum
            /\ window.counts + last'.count = window.seenCount
      ]_vars

\* One observation of a positive value, split: a reset read has returned
\* its sum with count 0, and the read after it finds sum 0 with count 1.
C30_Witness ==
    /\ kind = "Average"
    /\ AllIdle
    /\ last.op = "value"
    /\ last.clean
    /\ nResets = 1
    /\ window.seenCount = 1
    /\ window.sums = window.seenSum
    /\ window.sums > 0
    /\ window.counts = 0
    /\ last.sum = 0
    /\ last.count = 1

\* The sums of the sub-sequences of a sequence of amounts.
RECURSIVE SubSums(_)
SubSums(s) ==
    IF s = <<>> THEN {0}
    ELSE LET r == SubSums(Tail(s)) IN r \cup {x + Head(s) : x \in r}

\* C31: a value() of a Monotone that add() calls race with returns a value
\* between the sum of the amounts added when the read began and the sum of
\* the amounts added when it returned, and it differs from the former by
\* the whole amounts of some of the racing adds, never by a part of one.
C31_WhollyCounted ==
    [][(kind = "Monotone" /\ reads' = reads + 1 /\ last'.op = "value")
         => /\ window.startTotal <= last'.val
            /\ last'.val <= added
            /\ last'.val - window.startTotal \in SubSums(window.during)
      ]_vars

\* A read that two adds raced with: it has counted one and not the other.
C31_Witness ==
    /\ kind = "Monotone"
    /\ last.op = "value"
    /\ ~last.clean
    /\ Len(window.during) = 2
    /\ window.startTotal < last.val
    /\ last.val < added

C33_ZeroElapsedDrops ==
    [][(kind = "Rate" /\ Returns(TheSampler) /\ sampled[TheSampler].n > 0)
         => LET r == sampler[TheSampler]
            IN /\ ~sampled'[TheSampler].timed
                    => /\ sampled'[TheSampler].rate = ZeroRate
                       /\ last_value' = r.current_value
                       /\ last_instant' = Some(r.now)
               /\ window.zeroed
                    => sampled'[TheSampler].rate.num <= added - window.lostBefore
      ]_vars

\* The second call had zero elapsed time and an amount had been added
\* between the first call and it; the third call, with positive elapsed
\* time, has reported what was added after the second call began, only.
C33_Witness ==
    /\ kind = "Rate"
    /\ sampled[TheSampler].n = 3
    /\ sampler[TheSampler].pc = "idle"
    /\ window.zeroed
    /\ window.lostBefore > window.firstRead
    /\ sampled[TheSampler].timed
    /\ sampled[TheSampler].rate.num > 0
    /\ sampled[TheSampler].rate.num = added - window.lostBefore

\* The threads that have taken their slot.
Registered == {t \in Threads : THREAD_SLOT_INDEX[t] # NoSlot}

C35_ReadsKeepShards ==
    [][(kind = "Rate" /\ sampler' # sampler)
         => /\ window'.op \in RateOps
            /\ components' = components
            /\ SumCells' = SumCells
            /\ Returns(TheSampler)
                 => /\ last_value' = sampler[TheSampler].current_value
                    /\ last_instant' = Some(sampler[TheSampler].now)
                    /\ sampled'[TheSampler].rate.num
                         = IF sampled'[TheSampler].timed
                           THEN sampler[TheSampler].current_value
                                  - sampler[TheSampler].last_val
                           ELSE 0
      ]_vars

\* A value_and_reset() that followed a value() has returned a positive rate
\* and the cells still hold the total it read.
C35_Witness ==
    /\ kind = "Rate"
    /\ window.op = "value_and_reset"
    /\ sampler[TheSampler].pc = "idle"
    /\ sampled[TheSampler].n = 2
    /\ sampled[TheSampler].rate.num > 0
    /\ SumCells > 0
    /\ last_value = SumCells

\* What value() returns on cells f when nothing is written during the read:
\* the sum of the cells, resp. the smallest of them.
Aggregated(k, f) ==
    IF k = "Minimum"
    THEN CHOOSE m \in {f[i] : i \in Shards} : \A i \in Shards : m <= f[i]
    ELSE SumFrom(f, 0, NUM_COMPONENTS - 1)

\* C36: set_local_value(v) on an Unsigned, a Signed or a Minimum stores v in
\* the cell of the calling thread and leaves every other cell as it is; as
\* long as nothing else is written, local_value() of that thread returns v
\* and a value() returns v aggregated with what the other cells held before
\* the call.
C36_SetLocalOnly ==
    [][(kind \in SetKinds)
         => /\ (nCalls' = nCalls + 1 /\ window'.op = "set_local_value")
                 => \A i \in Shards :
                       components'[i] = IF i = THREAD_SLOT_INDEX[window'.setBy]
                                        THEN window'.set ELSE components[i]
            /\ (reads' = reads + 1 /\ last'.op = "local_value"
                  /\ window.setBy # 0 /\ last'.t = window.setBy)
                 => last'.val = window.set
            /\ (reads' = reads + 1 /\ last'.op = "value" /\ last'.clean
                  /\ window.setBy # 0)
                 => last'.val = Aggregated(kind,
                                   [i \in Shards |->
                                      IF i = THREAD_SLOT_INDEX[window.setBy]
                                      THEN window.set ELSE window.before[i]])
      ]_vars

\* A thread has set its cell over what it held, has read it back, and the
\* value() after that has combined it with another cell.
C36_Witness ==
    /\ kind \in SetKinds
    /\ window.setBy # 0
    /\ rd.pc = "idle"
    /\ last.op = "value"
    /\ last.clean
    /\ reads = 2
    /\ last.prevVal = window.set
    /\ last.val # window.set
    /\ \E i \in Shards :
          /\ i # THREAD_SLOT_INDEX[window.setBy]
          /\ window.before[i] # new(kind)
          /\ components[i] = window.before[i]

\* C37: an observe() of the sentinel (0 on a Maximum, usize::MAX on a
\* Minimum) writes nothing and is over at once, and as long as nothing else
\* was observed, value() and value_and_reset() return what they return on
\* a tracker that observed nothing: 0 for a Maximum, u64::MAX for a Minimum.
C37_SentinelIsNoData ==
    [][(kind \in ExtKinds)
         => /\ (nCalls' = nCalls + 1 /\ window'.set = new(kind))
                 => UNCHANGED <<components, pc, current, arg>>
            /\ (reads' = reads + 1 /\ window.observed \subseteq {new(kind)})
                 => /\ last'.val = IF kind = "Maximum" THEN 0 ELSE USIZE_MAX
                    /\ \A i \in Shards : components'[i] = new(kind)
      ]_vars

\* The sentinel was observed, and nothing else; a value() and then a
\* value_and_reset() have returned the value that stands for no data.
C37_Witness ==
    /\ kind \in ExtKinds
    /\ window.observed = {new(kind)}
    /\ nCalls = MaxAdds
    /\ reads = 2
    /\ last.op = "value_and_reset"
    /\ nResets = 1
    /\ last.val = last.prevVal
    /\ last.val = IF kind = "Maximum" THEN 0 ELSE USIZE_MAX

\* C38: metric_kind() is Counter for a Monotone and Gauge for an Unsigned,
\* a Signed and a Rate; whatever is done to the counter, it never answers
\* anything else; and inside a Labeled, a Resettable or a NonResettable the
\* answer is that of the counter inside.
C38_KindKept ==
    /\ [](kind \in KindKinds
            => window.kinds \subseteq {IF kind = "Monotone" THEN "Counter" ELSE "Gauge"})
    /\ [][(kind \in KindKinds /\ window.kinds # {}) => window'.kinds = window.kinds]_vars

\* A Monotone inside a Resettable has been added to, read and reset, and
\* has said what it is.
C38_Witness ==
    /\ kind = "Monotone"
    /\ window.via = "Resettable"
    /\ window.kinds = {"Counter"}
    /\ nCalls = MaxAdds
    /\ nResets > 0

\* The place of the first unnamed counter of a slice, 0 if all are named.
FirstUnnamed(counters) ==
    IF \A j \in 1 .. Len(counters) : counters[j].name # "" THEN 0
    ELSE CHOOSE j \in 1 .. Len(counters) :
             /\ counters[j].name = ""
             /\ \A h \in 1 .. j - 1 : counters[h].name # ""

\* C39: register() takes the counters of the slice in order and ends with
\* an error value at the first counter whose name is empty: the counters
\* before it are registered, that counter and those after it are not; a
\* slice of named counters is registered whole and the result is Ok.
C39_ErrAtFirstUnnamed ==
    /\ \A j \in 1 .. Len(otel.instruments) :
          /\ j <= Len(otel.counters)
          /\ otel.instruments[j].name = otel.counters[j].name
    /\ otel.pc = "done"
         => LET f == FirstUnnamed(otel.counters)
            IN IF f = 0
               THEN /\ otel.result = "Ok"
                    /\ Len(otel.instruments) = Len(otel.counters)
               ELSE /\ otel.result = "Err(MetricError)"
                    /\ Len(otel.instruments) = f - 1

\* register() has returned the error for a slice with a named counter, an
\* unnamed one and a named one: the first is registered, the others not.
C39_Witness ==
    /\ otel.pc = "done"
    /\ otel.result = "Err(MetricError)"
    /\ Len(otel.counters) = 3
    /\ otel.counters[1].name # ""
    /\ otel.counters[2].name = ""
    /\ otel.counters[3].name # ""
    /\ Len(otel.instruments) = 1
    /\ otel.instruments[1].name = otel.counters[1].name
====
